---------------------------- MODULE Spec2Model ----------------------------
(***************************************************************************)
(* A model of the search orchestrator: the tiered retrieval engine         *)
(* (src/src/routing/tiered_retrieval.rs), the confidence calculator         *)
(* (src/src/routing/confidence.rs), the token-bucket rate limiter           *)
(* (src/src/optimization/rate_limiter.rs), the pooled HTTP client           *)
(* (src/src/optimization/connection_pool.rs) and the result cache           *)
(* (src/src/optimization/zero_copy.rs).                                     *)
(*                                                                         *)
(* Text is a sequence of Unicode code points, so that str::len (UTF-8       *)
(* bytes) and chars().count() differ as they do in the program.  f32        *)
(* confidences are fixed-point numbers with One standing for 1.0; f64       *)
(* token counts are counted in units of 1/TokenScale of a token.            *)
(***************************************************************************)
EXTENDS Integers, Sequences, FiniteSets, TLC

-----------------------------------------------------------------------------
(* Text *)

\* Option<T>: None is the empty tuple, Some(x) the one-element tuple.
None == <<>>
Some(x) == <<x>>
IsSome(o) == Len(o) = 1
Unwrap(o) == o[1]

\* char::is_whitespace (the Unicode White_Space property), as used by
\* str::split_whitespace.
IsWhitespace(c) ==
    c \in ({9, 10, 11, 12, 13, 32, 133, 160, 5760, 8232, 8233, 8239, 8287, 12288}
           \cup (8192..8202))

\* The number of bytes of one code point in UTF-8.
Utf8Len(c) ==
    IF c < 128 THEN 1 ELSE IF c < 2048 THEN 2 ELSE IF c < 65536 THEN 3 ELSE 4

\* str::len: the length in bytes.
RECURSIVE ByteLen(_)
ByteLen(s) == IF s = <<>> THEN 0 ELSE Utf8Len(Head(s)) + ByteLen(Tail(s))

\* str::chars().count()
CharCount(s) == Len(s)

\* str::to_lowercase on the letters the inputs use (ASCII A-Z).
ToLowercase(s) == [i \in 1..Len(s) |-> IF s[i] \in 65..90 THEN s[i] + 32 ELSE s[i]]

\* str::contains with a string pattern.
Contains(hay, needle) ==
    \E i \in 0..(Len(hay) - Len(needle)) : SubSeq(hay, i + 1, i + Len(needle)) = needle

\* str::split_whitespace: the maximal runs of non-whitespace, in order.
RECURSIVE SplitFrom(_, _, _)
SplitFrom(s, i, word) ==
    IF i > Len(s)
    THEN IF word = <<>> THEN <<>> ELSE <<word>>
    ELSE IF IsWhitespace(s[i])
         THEN (IF word = <<>> THEN <<>> ELSE <<word>>) \o SplitFrom(s, i + 1, <<>>)
         ELSE SplitFrom(s, i + 1, Append(word, s[i]))

SplitWhitespace(s) == SplitFrom(s, 1, <<>>)

\* [&str]::join(sep)
RECURSIVE Join(_, _)
Join(words, sep) ==
    IF words = <<>> THEN <<>>
    ELSE IF Len(words) = 1 THEN words[1]
    ELSE words[1] \o sep \o Join(Tail(words), sep)

\* Iterator::take(n) on a sequence.
Take(seq, n) == SubSeq(seq, 1, IF Len(seq) < n THEN Len(seq) ELSE n)

\* Iterator::flat_map / concatenation of a sequence of sequences.
RECURSIVE Flatten(_)
Flatten(ss) == IF ss = <<>> THEN <<>> ELSE Head(ss) \o Flatten(Tail(ss))

Min(a, b) == IF a < b THEN a ELSE b
Max(a, b) == IF a > b THEN a ELSE b

RECURSIVE SumSeq(_)
SumSeq(xs) == IF xs = <<>> THEN 0 ELSE Head(xs) + SumSeq(Tail(xs))

Range(seq) == {seq[i] : i \in 1..Len(seq)}

\* The elements of a finite set in some order.
RECURSIVE SetToSeq(_)
SetToSeq(S) ==
    IF S = {} THEN <<>>
    ELSE LET x == CHOOSE y \in S : TRUE IN <<x>> \o SetToSeq(S \ {x})

-----------------------------------------------------------------------------
(* The texts the model's queries and backend results are built from *)

\* 'rust lang'
Q_rust_lang == <<114, 117, 115, 116, 32, 108, 97, 110, 103>>
\* 'go'
Q_go == <<103, 111>>
\* 'Rust Lang'
T_Rust_Lang == <<82, 117, 115, 116, 32, 76, 97, 110, 103>>
\* 'News'
T_News == <<78, 101, 119, 115>>
\* 'docs.rs/rust'
U_docs == <<100, 111, 99, 115, 46, 114, 115, 47, 114, 117, 115, 116>>
\* 'github.com/rust'
U_github == <<103, 105, 116, 104, 117, 98, 46, 99, 111, 109, 47, 114, 117, 115, 116>>
\* 'blog.io/a'
U_blog == <<98, 108, 111, 103, 46, 105, 111, 47, 97>>
\* 'rust lang'
N_rust_lang == <<114, 117, 115, 116, 32, 108, 97, 110, 103>>
\* 'rust lang rust lang safe fast code'
N_repeat == <<114, 117, 115, 116, 32, 108, 97, 110, 103, 32, 114, 117, 115, 116, 32, 108, 97, 110, 103, 32, 115, 97, 102, 101, 32, 102, 97, 115, 116, 32, 99, 111, 100, 101>>
\* 'U+5B89 U+5168 rust U+3000 is fun'
N_cjk == <<23433, 20840, 32, 114, 117, 115, 116, 12288, 105, 115, 32, 102, 117, 110>>
\* 'a to be'
N_short == <<97, 32, 116, 111, 32, 98, 101>>
\* 'U+5B89 U+5168 is fun': the longest word has two characters, six bytes.
N_cjk_short == <<23433, 20840, 32, 105, 115, 32, 102, 117, 110>>
\* 'rust lang book'
B_rust == <<114, 117, 115, 116, 32, 108, 97, 110, 103, 32, 98, 111, 111, 107>>

-----------------------------------------------------------------------------
(* ConfidenceCalculator (src/src/routing/confidence.rs) *)

\* The f32 value 1.0 in the model's fixed-point arithmetic.
One == 10000

\* ConfidenceConfig::default
ResultCountWeight == 1500
TitleRelevanceWeight == 3000
UrlAuthorityWeight == 2000
ContentQualityWeight == 2000
SemanticDensityWeight == 1500

\* ConfidenceCalculator::new: the authority domains.
\* 'github.com'
D_github == <<103, 105, 116, 104, 117, 98, 46, 99, 111, 109>>
\* 'stackoverflow.com'
D_stackoverflow == <<115, 116, 97, 99, 107, 111, 118, 101, 114, 102, 108, 111, 119, 46, 99, 111, 109>>
\* 'docs.rs'
D_docs_rs == <<100, 111, 99, 115, 46, 114, 115>>
\* 'rust-lang.org'
D_rust_lang == <<114, 117, 115, 116, 45, 108, 97, 110, 103, 46, 111, 114, 103>>
\* 'arxiv.org'
D_arxiv == <<97, 114, 120, 105, 118, 46, 111, 114, 103>>
\* 'wikipedia.org'
D_wikipedia == <<119, 105, 107, 105, 112, 101, 100, 105, 97, 46, 111, 114, 103>>
\* 'cve.mitre.org'
D_cve == <<99, 118, 101, 46, 109, 105, 116, 114, 101, 46, 111, 114, 103>>
\* 'nvd.nist.gov'
D_nvd == <<110, 118, 100, 46, 110, 105, 115, 116, 46, 103, 111, 118>>
authority_domains ==
    <<D_github, D_stackoverflow, D_docs_rs, D_rust_lang, D_arxiv, D_wikipedia,
      D_cve, D_nvd>>

\* a * b for two fixed-point numbers
FMul(a, b) == (a * b) \div One

\* A score that does not rise from 5 results to 6.
score_result_count_flat(count) ==
    IF count = 0 THEN 0
    ELSE IF count <= 2 THEN 3000
    ELSE IF count <= 10 THEN 6000
    ELSE One

score_result_count(count) ==
    IF count = 0 THEN 0
    ELSE IF count <= 2 THEN 3000
    ELSE IF count <= 5 THEN 6000
    ELSE IF count <= 10 THEN 9000
    ELSE One

\* query.to_lowercase().split_whitespace().filter(|w| w.len() > 2)
QueryWords(query) ==
    SelectSeq(SplitWhitespace(ToLowercase(query)), LAMBDA w : ByteLen(w) > 2)

score_title_relevance(query, results) ==
    LET query_words == QueryWords(query)
        matches(r) ==
            Cardinality({i \in 1..Len(query_words) :
                            Contains(ToLowercase(r.title), query_words[i])})
        total_score ==
            SumSeq([i \in 1..Len(results) |->
                       (matches(results[i]) * One) \div Len(query_words)])
    IN  IF query_words = <<>> THEN 5000
        ELSE Min(total_score \div Len(results), One)

score_url_authority(results) ==
    LET authority_count ==
            Cardinality({i \in 1..Len(results) :
                            \E d \in Range(authority_domains) :
                                Contains(results[i].url, d)})
    IN  Min((authority_count * One) \div Len(results), One)

score_content_quality(results) ==
    LET score(r) ==
            (IF IsSome(r.snippet) THEN 3000 ELSE 0)
            + (IF IsSome(r.content)
               THEN 3000
                    + (IF ByteLen(Unwrap(r.content)) > 500 THEN 2000 ELSE 0)
                    + (IF ByteLen(Unwrap(r.content)) > 1000 THEN 2000 ELSE 0)
               ELSE 0)
        total_score == SumSeq([i \in 1..Len(results) |-> score(results[i])])
    IN  Min(total_score \div Len(results), One)

score_semantic_density(query, results) ==
    LET query_words == QueryWords(query)
        density(r) ==
            LET text == ToLowercase(r.title \o <<32>>
                                    \o (IF IsSome(r.snippet) THEN Unwrap(r.snippet) ELSE <<>>))
                words == SplitWhitespace(text)
                relevant_count ==
                    Cardinality({i \in 1..Len(words) :
                                    \E qw \in Range(query_words) : Contains(words[i], qw)})
                unique_words == Range(words)
            IN  IF words = <<>> THEN 0
                ELSE (relevant_count * Cardinality(unique_words) * One)
                        \div (Len(words) * Len(words))
        total_density == SumSeq([i \in 1..Len(results) |-> density(results[i])])
    IN  IF query_words = <<>> THEN 5000
        ELSE Min(((total_density \div Len(results)) * 10), One)

\* A clamp that only keeps its argument from falling below lo.
ClampBelow(x, lo, hi) == IF x < lo THEN lo ELSE x

\* f32::clamp
Clamp(x, lo, hi) == IF x < lo THEN lo ELSE IF x > hi THEN hi ELSE x

\* ConfidenceConfig
ConfidenceConfig(count, title, url, content, density) ==
    [result_count_weight |-> count, title_relevance_weight |-> title,
     url_authority_weight |-> url, content_quality_weight |-> content,
     semantic_density_weight |-> density]

\* ConfidenceConfig::default
ConfidenceConfigDefault ==
    ConfidenceConfig(ResultCountWeight, TitleRelevanceWeight, UrlAuthorityWeight,
                     ContentQualityWeight, SemanticDensityWeight)

\* ConfidenceCalculator::calculate (lines 57-76) of a calculator whose
\* config is config.
calculate_with(config, query, results) ==
    IF results = <<>> THEN 0
    ELSE LET total ==
                 FMul(score_result_count(Len(results)), config.result_count_weight)
                 + FMul(score_title_relevance(query, results), config.title_relevance_weight)
                 + FMul(score_url_authority(results), config.url_authority_weight)
                 + FMul(score_content_quality(results), config.content_quality_weight)
                 + FMul(score_semantic_density(query, results), config.semantic_density_weight)
         IN  Clamp(total, 0, One)

\* calculate of ConfidenceCalculator::new(), whose config is the default one.
calculate(query, results) == calculate_with(ConfidenceConfigDefault, query, results)

-----------------------------------------------------------------------------
(* SearchResult values the backends return (src/src/types.rs) *)

SearchResult(title, url, snippet, content) ==
    [title |-> title, url |-> url, snippet |-> snippet, content |-> content]

\* DuckDuckGoClient::search builds results with a snippet and no content.
R_ddg_good == SearchResult(T_Rust_Lang, U_docs, Some(N_rust_lang), None)
R_ddg_poor == SearchResult(T_News, U_blog, Some(N_repeat), None)
R_ddg_cjk == SearchResult(T_News, U_blog, Some(N_cjk), None)
R_ddg_short == SearchResult(T_News, U_blog, Some(N_short), None)
R_ddg_cjk_short == SearchResult(T_News, U_blog, Some(N_cjk_short), None)
\* ExaClient::search: snippet and content are both optional.
R_exa_good == SearchResult(T_Rust_Lang, U_github, Some(N_rust_lang), Some(B_rust))
R_exa_poor == SearchResult(T_News, U_blog, None, None)
\* TavilyClient::extract_content builds results with no snippet.
R_extract == SearchResult(T_Rust_Lang, U_docs, None, Some(B_rust))

L1Lists ==
    { <<>>,
      <<R_ddg_poor>>,
      <<R_ddg_cjk, R_ddg_short>>,
      <<R_ddg_short>>,
      <<R_ddg_cjk_short>>,
      <<R_ddg_good, R_ddg_good, R_ddg_good, R_ddg_good, R_ddg_good, R_ddg_good>> }

L2Lists ==
    { <<>>,
      <<R_exa_poor>>,
      <<R_exa_good, R_exa_poor, R_exa_good, R_exa_poor>>,
      <<R_exa_good, R_exa_good, R_exa_good>> }

L3Lists == { <<>>, <<R_extract>>, <<R_extract, R_exa_poor>> }

Queries == {Q_rust_lang, Q_go}

\* SearchError (src/src/types.rs): a variant and its message.  A request
\* timeout is a transport error of reqwest, which the backend clients map to
\* NetworkError with the text of the reqwest error; that text is taken to
\* name the endpoint the request went to.
SearchError(kind, msg) == [kind |-> kind, msg |-> msg]
E_timeout(endpoint) == SearchError("NetworkError", <<"timed out", endpoint>>)
\* ApiError(format!("Exa API ... {}: {}", status, error_text)), and the same
\* with "Tavily Extract API": the message starts with the name of the API.
E_api(api) == SearchError("ApiError", <<api, "500">>)
\* ParseError with the text of the reqwest error of response.json().
E_parse(endpoint) == SearchError("ParseError", <<"decode", endpoint>>)
\* ParseError with the fixed message of exa.rs:56 and tavily.rs:94 (the same
\* string in both: "cannot parse the results"), for a response without a
\* "results" array.
E_no_results == SearchError("ParseError", <<"cannot parse the results">>)
\* DuckDuckGoClient::search checks no status: it fails with Network or Parse.
L1Errors == {E_timeout("api.duckduckgo.com"), E_parse("api.duckduckgo.com")}
L2Errors ==
    {E_timeout("api.exa.ai/search"), E_api("Exa API"), E_parse("api.exa.ai/search"),
     E_no_results}
L3Errors ==
    {E_timeout("api.tavily.com/extract"), E_api("Tavily Extract API"),
     E_parse("api.tavily.com/extract"), E_no_results}

-----------------------------------------------------------------------------
(* RateLimiter (src/src/optimization/rate_limiter.rs): configuration *)

\* One token (the f64 value 1.0) in the units tokens are counted in.
TokenScale == 2
\* RateLimiterConfig.burst_size of the model's limiter.
BurstSize == 2
\* Instant::now() is read off a clock that runs from 0 to MaxClock.  One tick
\* is the time the limiter takes to refill one unit, 1 / (refill_rate *
\* TokenScale) seconds, so that elapsed * refill_rate is the number of ticks.
MaxClock == 3
\* The number of limiter calls one caller makes.
MaxLimiterOps == 2

\* The concurrent callers of one RateLimiter.
LimCallers == {"t1", "t2"}

\* A bucket that holds one token more than burst_size.
max_tokens_more == (BurstSize + 1) * TokenScale

\* A sleep of no time.
wait_time_none == 0 * TokenScale

\* max_tokens = burst_size as f64
max_tokens == BurstSize * TokenScale
\* Duration::from_secs_f64(1.0 / refill_rate), in ticks
wait_time == TokenScale

-----------------------------------------------------------------------------
(* The state *)

VARIABLES
    \* TieredRetrieval and its search calls
    exa,             \* TieredRetrieval.exa is Some
    tavily,          \* TieredRetrieval.tavily is Some
    l1_threshold,    \* config.l1_threshold
    l2_threshold,    \* config.l2_threshold
    pc,              \* where each search call is
    query,           \* the query argument of each search call
    l1_results,      \* locals of search, kept across its await points
    l1_confidence,
    l2_results,
    l2_confidence,
    outcome,         \* None while running, then the Result search returned
    log,             \* per search: the backend calls made and their responses
    \* PooledClient and its callers
    max_concurrent,  \* config.max_concurrent
    permits,         \* the permits available in the semaphore
    waiters,         \* the semaphore's queue of waiting acquire() futures
    pool_pc,         \* where each caller is in get / post_json
    pool_op,         \* "get" or "post_json"
    pool_end,        \* how the caller's last call ended
    pool_calls,      \* the number of calls each caller has started
    \* RateLimiter and its callers
    tokens,          \* RateLimiter.tokens, in units of 1/TokenScale
    last_refill,     \* RateLimiter.last_refill
    tokens_lock,     \* the holder of the tokens mutex, or "free"
    last_refill_lock, \* the holder of the last_refill mutex, or "free"
    clock,           \* the monotonic clock
    lim_pc,          \* where each caller is in its limiter call
    lim_op,          \* "acquire", "try_acquire" or "available_tokens"
    lim_now,         \* the local `now` of refill
    lim_wake,        \* when the caller's sleep ends
    lim_ret,         \* what the caller's last call returned
    lim_ops,         \* the number of calls each caller has started
    tokens_taken,    \* the number of tokens deducted so far
    lim_seen,        \* the token count the caller's last refill left
    lim_failed_at,   \* when the caller's call last found no token, or -1
    seq_tokens,      \* the bucket of the same calls made one after the other
    seq_last_refill, \* and its last_refill
    \* SearchCache and its callers
    cache,           \* SearchCache.cache: key -> serialized result set
    max_size,        \* SearchCache.max_size
    ttl_seconds,     \* SearchCache.ttl_seconds
    unix_now,        \* SystemTime::now(), in seconds since UNIX_EPOCH
    cache_last,      \* the last cache call: its caller, method, key and result
    cache_ops,       \* the number of cache calls made
    stored,          \* per cached key: when it was stored, and what
    \* The RwLock of SearchCache.cache and the callers inside the methods
    rw_writer,       \* the holder of the write guard, or "none"
    rw_readers,      \* the holders of read guards
    rw_pc,           \* where each caller is in its cache method
    rw_call,         \* the key and the serialized value of the caller's call
    rw_ret,          \* what the caller's last call returned
    rw_ops,          \* the number of calls started
    \* SemanticRouter and its last classify call
    router_config,   \* SemanticRouter.config
    router_call,     \* the query of the last classify call and what it returned
    \* ConfidenceCalculator and its last calls
    calc_config,     \* ConfidenceCalculator.config
    calc_call,       \* the arguments of the last calculate call and its result
    count_call       \* the argument of the last score_result_count call and its result

tieredVars ==
    <<exa, tavily, l1_threshold, l2_threshold, pc, query, l1_results,
      l1_confidence, l2_results, l2_confidence, outcome, log>>

poolVars == <<max_concurrent, permits, waiters, pool_pc, pool_op, pool_end, pool_calls>>

limiterVars ==
    <<tokens, last_refill, tokens_lock, last_refill_lock, clock, lim_pc, lim_op,
      lim_now, lim_wake, lim_ret, lim_ops, tokens_taken, lim_seen, lim_failed_at,
      seq_tokens, seq_last_refill>>

cacheVars ==
    <<cache, max_size, ttl_seconds, unix_now, cache_last, cache_ops, stored>>

lockVars == <<rw_writer, rw_readers, rw_pc, rw_call, rw_ret, rw_ops>>

routerVars == <<router_config, router_call>>

confidenceVars == <<calc_config, calc_call, count_call>>

vars ==
    <<tieredVars, poolVars, limiterVars, cacheVars, lockVars, routerVars,
      confidenceVars>>

-----------------------------------------------------------------------------
(* TieredRetrieval (src/src/routing/tiered_retrieval.rs) *)

\* TieredConfig::default
DefaultL1Threshold == 8000
DefaultL2Threshold == 8500
max_results_per_tier == 10

\* cost_estimate, in thousandths of a dollar
CostL1 == 0
CostL2 == 5
CostL3 == 15

\* The concurrent calls of TieredRetrieval::search on one engine.
Searches == {"s1", "s2"}

\* The configurations of the engine: <<l1_threshold, l2_threshold>>.
ThresholdChoices ==
    { <<DefaultL1Threshold, DefaultL2Threshold>>, <<0, DefaultL2Threshold>>,
      <<DefaultL1Threshold, 0>> }

\* TieredResult with the cost left at 0.0.
TieredResultNoCost(results, tier_used, confidence, cost_estimate) ==
    [ok |-> TRUE, results |-> results, tier_used |-> tier_used,
     confidence |-> confidence, cost_estimate |-> 0]

TieredResult(results, tier_used, confidence, cost_estimate) ==
    [ok |-> TRUE, results |-> results, tier_used |-> tier_used,
     confidence |-> confidence, cost_estimate |-> cost_estimate]

Err(e) == [ok |-> FALSE, error |-> e]

Call(tier, arg) == [ev |-> "call", tier |-> tier, arg |-> arg]
Response(tier, res) == [ev |-> "ok", tier |-> tier, results |-> res]
Failure(tier, e) == [ev |-> "err", tier |-> tier, error |-> e]

\* refine_query with the length of a word counted in characters.
refine_query_chars(original, results) ==
    LET snippets ==
            [i \in 1..Len(SelectSeq(results, LAMBDA r : IsSome(r.snippet))) |->
                Unwrap(SelectSeq(results, LAMBDA r : IsSome(r.snippet))[i].snippet)]
        words == Flatten([i \in 1..Len(snippets) |-> SplitWhitespace(snippets[i])])
        keywords == Take(SelectSeq(words, LAMBDA w : CharCount(w) > 3), 5)
    IN  IF keywords = <<>> THEN original
        ELSE original \o <<32>> \o Join(keywords, <<32>>)

\* refine_query that appends the separating space even with no keyword.
refine_query_trailing(original, results) ==
    LET snippets ==
            [i \in 1..Len(SelectSeq(results, LAMBDA r : IsSome(r.snippet))) |->
                Unwrap(SelectSeq(results, LAMBDA r : IsSome(r.snippet))[i].snippet)]
        words == Flatten([i \in 1..Len(snippets) |-> SplitWhitespace(snippets[i])])
        keywords == Take(SelectSeq(words, LAMBDA w : ByteLen(w) > 3), 5)
    IN  original \o <<32>> \o Join(keywords, <<32>>)

\* TieredRetrieval::refine_query
refine_query(original, results) ==
    LET snippets ==
            [i \in 1..Len(SelectSeq(results, LAMBDA r : IsSome(r.snippet))) |->
                Unwrap(SelectSeq(results, LAMBDA r : IsSome(r.snippet))[i].snippet)]
        words == Flatten([i \in 1..Len(snippets) |-> SplitWhitespace(snippets[i])])
        keywords == Take(SelectSeq(words, LAMBDA w : ByteLen(w) > 3), 5)
    IN  IF keywords = <<>> THEN original
        ELSE original \o <<32>> \o Join(keywords, <<32>>)

\* The URLs of all the results.
TopUrlsAll(results) == [i \in 1..Len(results) |-> results[i].url]

\* l2_results.iter().take(3).map(|r| r.url.as_str()).collect()
TopUrls(results) == [i \in 1..Len(Take(results, 3)) |-> results[i].url]

\* The gate with > for >=.
MeetsThresholdStrict(confidence, threshold) == confidence > threshold

\* The gate that never stops the escalation.
MeetsThresholdNever(confidence, threshold) == FALSE

\* The gate that asks for a tenth more than the threshold.
MeetsThresholdAbove(confidence, threshold) == confidence >= threshold + 1000

\* The gate `confidence >= threshold` of search.
MeetsThreshold(confidence, threshold) == confidence >= threshold

\* An L2 stage that runs when either paid backend is configured.
AnyPaidBackendConfigured == exa \/ tavily

\* `if let Some(exa) = &self.exa` (line 106): the L2 stage, and the L3 stage
\* nested in it, run only with an Exa backend.
ExaConfigured == exa

\* TieredRetrieval::new(config): no paid backend is configured.
InitTiered ==
    /\ exa = FALSE
    /\ tavily = FALSE
    /\ \E th \in ThresholdChoices : l1_threshold = th[1] /\ l2_threshold = th[2]
    /\ pc = [s \in Searches |-> "idle"]
    /\ query = [s \in Searches |-> <<>>]
    /\ l1_results = [s \in Searches |-> <<>>]
    /\ l1_confidence = [s \in Searches |-> 0]
    /\ l2_results = [s \in Searches |-> <<>>]
    /\ l2_confidence = [s \in Searches |-> 0]
    /\ outcome = [s \in Searches |-> None]
    /\ log = [s \in Searches |-> <<>>]

\* with_exa and with_tavily take the engine by value: they configure it
\* before any search call can borrow it.
with_exa ==
    /\ \A s \in Searches : pc[s] = "idle"
    /\ ~exa
    /\ exa' = TRUE
    /\ UNCHANGED <<tavily, l1_threshold, l2_threshold, pc, query, l1_results,
                   l1_confidence, l2_results, l2_confidence, outcome, log,
                   poolVars, limiterVars, cacheVars, lockVars, routerVars, confidenceVars>>

with_tavily ==
    /\ \A s \in Searches : pc[s] = "idle"
    /\ ~tavily
    /\ tavily' = TRUE
    /\ UNCHANGED <<exa, l1_threshold, l2_threshold, pc, query, l1_results,
                   l1_confidence, l2_results, l2_confidence, outcome, log,
                   poolVars, limiterVars, cacheVars, lockVars, routerVars, confidenceVars>>

\* search is called: it calls the L1 backend and awaits it.
SearchStart(s, q) ==
    /\ pc[s] = "idle"
    /\ pc' = [pc EXCEPT ![s] = "l1_call"]
    /\ query' = [query EXCEPT ![s] = q]
    /\ log' = [log EXCEPT ![s] = Append(@, Call("L1", <<q, max_results_per_tier>>))]
    /\ UNCHANGED <<exa, tavily, l1_threshold, l2_threshold, l1_results,
                   l1_confidence, l2_results, l2_confidence, outcome,
                   poolVars, limiterVars, cacheVars, lockVars, routerVars, confidenceVars>>

\* The L1 backend returns Ok(results): lines 93-113 and 162-168.
L1Ok(s, results) ==
    /\ pc[s] = "l1_call"
    /\ LET confidence == calculate(query[s], results)
       IN  /\ l1_results' = [l1_results EXCEPT ![s] = results]
           /\ l1_confidence' = [l1_confidence EXCEPT ![s] = confidence]
           /\ IF MeetsThreshold(confidence, l1_threshold)
              THEN /\ pc' = [pc EXCEPT ![s] = "done"]
                   /\ outcome' = [outcome EXCEPT ![s] =
                                     TieredResult(results, "L1", confidence, CostL1)]
                   /\ log' = [log EXCEPT ![s] = Append(@, Response("L1", results))]
              ELSE IF ExaConfigured
              THEN /\ pc' = [pc EXCEPT ![s] = "l2_call"]
                   /\ outcome' = outcome
                   /\ log' = [log EXCEPT ![s] =
                                 @ \o << Response("L1", results),
                                         Call("L2", <<refine_query(query[s], results),
                                                      max_results_per_tier>>) >>]
              ELSE /\ pc' = [pc EXCEPT ![s] = "done"]
                   /\ outcome' = [outcome EXCEPT ![s] =
                                     TieredResult(results, "L1", confidence, CostL1)]
                   /\ log' = [log EXCEPT ![s] = Append(@, Response("L1", results))]
    /\ UNCHANGED <<exa, tavily, l1_threshold, l2_threshold, query, l2_results,
                   l2_confidence,
                   poolVars, limiterVars, cacheVars, lockVars, routerVars, confidenceVars>>

\* A failed backend call answered with the results of the tier before it,
\* or with an empty result of confidence 0.
PropagateFallback(s, tier, e) ==
    /\ pc' = [pc EXCEPT ![s] = "done"]
    /\ outcome' = [outcome EXCEPT ![s] =
                      IF tier = "L2"
                      THEN [ok |-> TRUE, results |-> l1_results[s], tier_used |-> "L1",
                            confidence |-> l1_confidence[s], cost_estimate |-> CostL1]
                      ELSE IF tier = "L3"
                      THEN [ok |-> TRUE, results |-> l2_results[s], tier_used |-> "L2",
                            confidence |-> l2_confidence[s], cost_estimate |-> CostL2]
                      ELSE [ok |-> TRUE, results |-> <<>>, tier_used |-> "L1",
                            confidence |-> 0, cost_estimate |-> CostL1]]
    /\ log' = [log EXCEPT ![s] = Append(@, Failure(tier, e))]
    /\ UNCHANGED <<exa, tavily, l1_threshold, l2_threshold, query, l1_results,
                   l1_confidence, l2_results, l2_confidence,
                   poolVars, limiterVars, cacheVars, lockVars, routerVars, confidenceVars>>

\* A backend call returns Err(e): the `?` after the await returns it.
Propagate(s, tier, e) ==
    /\ pc' = [pc EXCEPT ![s] = "failed"]
    /\ outcome' = [outcome EXCEPT ![s] = Err(e)]
    /\ log' = [log EXCEPT ![s] = Append(@, Failure(tier, e))]
    /\ UNCHANGED <<exa, tavily, l1_threshold, l2_threshold, query, l1_results,
                   l1_confidence, l2_results, l2_confidence,
                   poolVars, limiterVars, cacheVars, lockVars, routerVars, confidenceVars>>

L1Err(s, e) ==
    /\ pc[s] = "l1_call"
    /\ Propagate(s, "L1", e)

\* The L2 backend returns Ok(results): lines 115-159.
\* A confidence computed against the refined query that was sent to L2.
ScoredQueryRefined(s) == refine_query(query[s], l1_results[s])

\* The first argument of calculate at L2 and L3 (lines 115, 142): the query
\* parameter of search, not refined_query.
ScoredQuery(s) == query[s]

L2Ok(s, results) ==
    /\ pc[s] = "l2_call"
    /\ LET confidence == calculate(ScoredQuery(s), results)
       IN  /\ l2_results' = [l2_results EXCEPT ![s] = results]
           /\ l2_confidence' = [l2_confidence EXCEPT ![s] = confidence]
           /\ IF MeetsThreshold(confidence, l2_threshold)
              THEN /\ pc' = [pc EXCEPT ![s] = "done"]
                   /\ outcome' = [outcome EXCEPT ![s] =
                                     TieredResult(results, "L2", confidence, CostL2)]
                   /\ log' = [log EXCEPT ![s] = Append(@, Response("L2", results))]
              ELSE IF tavily
              THEN /\ pc' = [pc EXCEPT ![s] = "l3_call"]
                   /\ outcome' = outcome
                   /\ log' = [log EXCEPT ![s] =
                                 @ \o << Response("L2", results),
                                         Call("L3", TopUrls(results)) >>]
              ELSE /\ pc' = [pc EXCEPT ![s] = "done"]
                   /\ outcome' = [outcome EXCEPT ![s] =
                                     TieredResult(results, "L2", confidence, CostL2)]
                   /\ log' = [log EXCEPT ![s] = Append(@, Response("L2", results))]
    /\ UNCHANGED <<exa, tavily, l1_threshold, l2_threshold, query, l1_results,
                   l1_confidence,
                   poolVars, limiterVars, cacheVars, lockVars, routerVars, confidenceVars>>

L2Err(s, e) ==
    /\ pc[s] = "l2_call"
    /\ Propagate(s, "L2", e)

\* L3Ok returning whichever of the L2 and L3 results scores higher.
L3OkBestOf(s, results) ==
    /\ pc[s] = "l3_call"
    /\ LET confidence == calculate(query[s], results)
       IN  /\ pc' = [pc EXCEPT ![s] = "done"]
           /\ outcome' = [outcome EXCEPT ![s] =
                             IF confidence >= l2_confidence[s]
                             THEN [ok |-> TRUE, results |-> results, tier_used |-> "L3",
                                   confidence |-> confidence, cost_estimate |-> CostL3]
                             ELSE [ok |-> TRUE, results |-> l2_results[s],
                                   tier_used |-> "L2", confidence |-> l2_confidence[s],
                                   cost_estimate |-> CostL3]]
           /\ log' = [log EXCEPT ![s] = Append(@, Response("L3", results))]
    /\ UNCHANGED <<exa, tavily, l1_threshold, l2_threshold, query, l1_results,
                   l1_confidence, l2_results, l2_confidence,
                   poolVars, limiterVars, cacheVars, lockVars, routerVars, confidenceVars>>

\* The L3 backend returns Ok(results): lines 142-150.
L3Ok(s, results) ==
    /\ pc[s] = "l3_call"
    /\ LET confidence == calculate(ScoredQuery(s), results)
       IN  /\ pc' = [pc EXCEPT ![s] = "done"]
           /\ outcome' = [outcome EXCEPT ![s] =
                             TieredResult(results, "L3", confidence, CostL3)]
           /\ log' = [log EXCEPT ![s] = Append(@, Response("L3", results))]
    /\ UNCHANGED <<exa, tavily, l1_threshold, l2_threshold, query, l1_results,
                   l1_confidence, l2_results, l2_confidence,
                   poolVars, limiterVars, cacheVars, lockVars, routerVars, confidenceVars>>

L3Err(s, e) ==
    /\ pc[s] = "l3_call"
    /\ Propagate(s, "L3", e)

\* One step of the search call s.
SearchStep(s) ==
    \/ \E q \in Queries : SearchStart(s, q)
    \/ \E rs \in L1Lists : L1Ok(s, rs)
    \/ \E e \in L1Errors : L1Err(s, e)
    \/ \E rs \in L2Lists : L2Ok(s, rs)
    \/ \E e \in L2Errors : L2Err(s, e)
    \/ \E rs \in L3Lists : L3Ok(s, rs)
    \/ \E e \in L3Errors : L3Err(s, e)

-----------------------------------------------------------------------------
(* PooledClient (src/src/optimization/connection_pool.rs) *)

\* The largest PoolConfig.max_concurrent of the model.
MaxConcurrent == 2
\* The number of get / post_json calls one caller makes.
MaxPoolCalls == 2

\* The concurrent callers of PooledClient::get and post_json.
PoolCallers == {"c1", "c2", "c3"}

\* PooledClient::new: Semaphore::new(config.max_concurrent)
InitPool ==
    /\ max_concurrent \in 1..MaxConcurrent
    /\ permits = max_concurrent
    /\ waiters = <<>>
    /\ pool_pc = [c \in PoolCallers |-> "idle"]
    /\ pool_op = [c \in PoolCallers |-> "none"]
    /\ pool_end = [c \in PoolCallers |-> "none"]
    /\ pool_calls = [c \in PoolCallers |-> 0]

\* PooledClient::active_permits
active_permits == max_concurrent - permits

\* Dropping a permit adds it to the available ones and wakes nobody.
ReleasedUnnoticed(pcs) == <<permits + 1, waiters, pcs>>

\* Dropping a permit that a cancelled caller held is lost.
ReleasedLeak(pcs) == <<permits, waiters, pcs>>

\* Dropping a SemaphorePermit (or an Acquire future that was handed one)
\* returns one permit: the semaphore hands it to the first waiter in its
\* queue, or adds it to the available permits when nobody waits.
\* The value is <<permits', waiters', pool_pc'>> given the callers' new
\* positions pcs.
Released(pcs) ==
    IF waiters # <<>>
    THEN <<permits, Tail(waiters), [pcs EXCEPT ![Head(waiters)] = "granted"]>>
    ELSE <<permits + 1, waiters, pcs>>

\* A caller takes a permit although none is available.
TryTakeAlways(c) == TRUE

\* The first poll of semaphore.acquire(): a permit is taken if one is
\* available.
TryTake(c) == permits > 0

\* get / post_json is called and polls semaphore.acquire() (lines 56, 66):
\* with a permit it sends the request, without one it queues up.
PoolCall(c, op) ==
    /\ pool_pc[c] = "idle"
    /\ pool_calls[c] < MaxPoolCalls
    /\ pool_calls' = [pool_calls EXCEPT ![c] = @ + 1]
    /\ pool_op' = [pool_op EXCEPT ![c] = op]
    /\ pool_end' = [pool_end EXCEPT ![c] = "none"]
    /\ IF TryTake(c)
       THEN /\ permits' = permits - 1
            /\ pool_pc' = [pool_pc EXCEPT ![c] = "sending"]
            /\ waiters' = waiters
       ELSE /\ permits' = permits
            /\ pool_pc' = [pool_pc EXCEPT ![c] = "waiting"]
            /\ waiters' = Append(waiters, c)
    /\ UNCHANGED <<max_concurrent, tieredVars, limiterVars, cacheVars, lockVars, routerVars, confidenceVars>>

\* A waiter that was handed a permit is polled again: acquire() returns the
\* permit and the request is sent (lines 57, 67).
PoolResume(c) ==
    /\ pool_pc[c] = "granted"
    /\ pool_pc' = [pool_pc EXCEPT ![c] = "sending"]
    /\ UNCHANGED <<max_concurrent, permits, waiters, pool_op, pool_end, pool_calls,
                   tieredVars, limiterVars, cacheVars, lockVars, routerVars, confidenceVars>>

\* The request ends, with a response (how = "ok") or with an error that `?`
\* returns (how = "err"): _permit is dropped as the function returns.
PoolFinish(c, how) ==
    /\ pool_pc[c] = "sending"
    /\ LET r == Released([pool_pc EXCEPT ![c] = "idle"])
       IN  /\ permits' = r[1]
           /\ waiters' = r[2]
           /\ pool_pc' = r[3]
    /\ pool_end' = [pool_end EXCEPT ![c] = how]
    /\ UNCHANGED <<max_concurrent, pool_op, pool_calls, tieredVars, limiterVars, cacheVars, lockVars, routerVars, confidenceVars>>

\* The caller drops the future of get / post_json: while it waits in the
\* queue, after it was handed a permit, or while the request is in flight.
PoolCancel(c) ==
    /\ pool_pc[c] \in {"waiting", "granted", "sending"}
    /\ IF pool_pc[c] = "waiting"
       THEN /\ waiters' = SelectSeq(waiters, LAMBDA w : w # c)
            /\ permits' = permits
            /\ pool_pc' = [pool_pc EXCEPT ![c] = "idle"]
       ELSE LET r == Released([pool_pc EXCEPT ![c] = "idle"])
            IN  /\ permits' = r[1]
                /\ waiters' = r[2]
                /\ pool_pc' = r[3]
    /\ pool_end' = [pool_end EXCEPT ![c] = "cancelled_" \o pool_pc[c]]
    /\ UNCHANGED <<max_concurrent, pool_op, pool_calls, tieredVars, limiterVars, cacheVars, lockVars, routerVars, confidenceVars>>

PoolStep(c) ==
    \/ \E op \in {"get", "post_json"} : PoolCall(c, op)
    \/ PoolResume(c)
    \/ \E how \in {"ok", "err"} : PoolFinish(c, how)
    \/ PoolCancel(c)

-----------------------------------------------------------------------------
(* RateLimiter (src/src/optimization/rate_limiter.rs) *)

\* RateLimiter::new: the bucket is full and last_refill is now.
InitLimiter ==
    /\ tokens = max_tokens
    /\ last_refill = 0
    /\ tokens_lock = "free"
    /\ last_refill_lock = "free"
    /\ clock = 0
    /\ lim_pc = [t \in LimCallers |-> "idle"]
    /\ lim_op = [t \in LimCallers |-> "none"]
    /\ lim_now = [t \in LimCallers |-> 0]
    /\ lim_wake = [t \in LimCallers |-> 0]
    /\ lim_ret = [t \in LimCallers |-> "none"]
    /\ lim_ops = [t \in LimCallers |-> 0]
    /\ tokens_taken = 0
    /\ lim_seen = [t \in LimCallers |-> max_tokens]
    /\ lim_failed_at = [t \in LimCallers |-> -1]
    /\ seq_tokens = max_tokens
    /\ seq_last_refill = 0

\* Time passes.
Tick ==
    /\ clock < MaxClock
    /\ clock' = clock + 1
    /\ UNCHANGED <<tokens, last_refill, tokens_lock, last_refill_lock, lim_pc,
                   lim_op, lim_now, lim_wake, lim_ret, lim_ops, tokens_taken,
                   lim_seen, lim_failed_at, seq_tokens, seq_last_refill,
                   tieredVars, poolVars, cacheVars, lockVars, routerVars, confidenceVars>>

\* acquire, try_acquire or available_tokens is called.
LimCall(t, op) ==
    /\ lim_pc[t] = "idle"
    /\ lim_ops[t] < MaxLimiterOps
    /\ lim_ops' = [lim_ops EXCEPT ![t] = @ + 1]
    /\ lim_op' = [lim_op EXCEPT ![t] = op]
    /\ lim_ret' = [lim_ret EXCEPT ![t] = "none"]
    /\ lim_pc' = [lim_pc EXCEPT ![t] = "refill_now"]
    /\ lim_failed_at' = [lim_failed_at EXCEPT ![t] = -1]
    /\ UNCHANGED <<tokens, last_refill, tokens_lock, last_refill_lock, clock,
                   lim_now, lim_wake, tokens_taken, lim_seen, seq_tokens,
                   seq_last_refill, tieredVars, poolVars, cacheVars, lockVars, routerVars, confidenceVars>>

\* refill, line 67: let now = Instant::now()
LimNow(t) ==
    /\ lim_pc[t] = "refill_now"
    /\ lim_now' = [lim_now EXCEPT ![t] = clock]
    /\ lim_pc' = [lim_pc EXCEPT ![t] = "refill_lock"]
    /\ UNCHANGED <<tokens, last_refill, tokens_lock, last_refill_lock, clock,
                   lim_op, lim_wake, lim_ret, lim_ops, tokens_taken,
                   lim_seen, lim_failed_at, seq_tokens, seq_last_refill,
                   tieredVars, poolVars, cacheVars, lockVars, routerVars, confidenceVars>>

\* The time elapsed measured from the creation of the limiter.
ElapsedSinceNew(now, since) == now

\* now.duration_since(*last_refill): zero when last_refill is later than now.
Elapsed(now, since) == IF now > since THEN now - since ELSE 0

\* refill, lines 68-71: lock last_refill and compare it with now.  With no
\* time elapsed refill returns, which unlocks last_refill.
LimLockLastRefill(t) ==
    /\ lim_pc[t] = "refill_lock"
    /\ last_refill_lock = "free"
    /\ IF Elapsed(lim_now[t], last_refill) > 0
       THEN /\ last_refill_lock' = t
            /\ lim_pc' = [lim_pc EXCEPT ![t] = "refill_lock_tokens"]
            /\ lim_seen' = lim_seen
       ELSE /\ last_refill_lock' = "free"
            /\ lim_pc' = [lim_pc EXCEPT ![t] = "take_lock"]
            /\ lim_seen' = [lim_seen EXCEPT ![t] = tokens]
    /\ UNCHANGED <<tokens, last_refill, tokens_lock, clock, lim_op, lim_now,
                   lim_wake, lim_ret, lim_ops, tokens_taken, lim_failed_at,
                   seq_tokens, seq_last_refill, tieredVars, poolVars, cacheVars, lockVars, routerVars, confidenceVars>>

\* refill, line 72: lock tokens, with last_refill locked.
LimLockTokensInRefill(t) ==
    /\ lim_pc[t] = "refill_lock_tokens"
    /\ tokens_lock = "free"
    /\ tokens_lock' = t
    /\ lim_pc' = [lim_pc EXCEPT ![t] = "refill_update"]
    /\ UNCHANGED <<tokens, last_refill, last_refill_lock, clock, lim_op, lim_now,
                   lim_wake, lim_ret, lim_ops, tokens_taken, lim_seen,
                   lim_failed_at, seq_tokens, seq_last_refill, tieredVars, poolVars, cacheVars, lockVars, routerVars, confidenceVars>>

\* A refill that adds nothing.
RefilledNothing(current, elapsed) == current

\* The refilled bucket without the cap.
RefilledUncapped(current, elapsed) == current + elapsed

\* A refill that credits half of the elapsed time.
RefilledSlow(current, elapsed) == Min(current + elapsed \div 2, max_tokens)

\* (*tokens + elapsed * refill_rate).min(max_tokens)
Refilled(current, elapsed) == Min(current + elapsed, max_tokens)

\* A refill that leaves last_refill as it was.
RefillTimeStale(now, since) == since

\* *last_refill = now
RefillTime(now, since) == now

\* refill, lines 73-76: add the tokens of the elapsed time, set last_refill,
\* and unlock both.
LimRefillUpdate(t) ==
    /\ lim_pc[t] = "refill_update"
    /\ tokens' = Refilled(tokens, Elapsed(lim_now[t], last_refill))
    /\ last_refill' = RefillTime(lim_now[t], last_refill)
    /\ tokens_lock' = "free"
    /\ last_refill_lock' = "free"
    /\ lim_pc' = [lim_pc EXCEPT ![t] = "take_lock"]
    /\ lim_seen' = [lim_seen EXCEPT ![t] = tokens']
    /\ UNCHANGED <<clock, lim_op, lim_now, lim_wake, lim_ret, lim_ops,
                   tokens_taken, lim_failed_at, seq_tokens, seq_last_refill,
                   tieredVars, poolVars, cacheVars, lockVars, routerVars, confidenceVars>>

\* After refill: self.tokens.lock() (lines 43, 57, 81).
LimLockTokens(t) ==
    /\ lim_pc[t] = "take_lock"
    /\ tokens_lock = "free"
    /\ tokens_lock' = t
    /\ lim_pc' = [lim_pc EXCEPT ![t] = "take"]
    /\ UNCHANGED <<tokens, last_refill, last_refill_lock, clock, lim_op, lim_now,
                   lim_wake, lim_ret, lim_ops, tokens_taken, lim_seen,
                   lim_failed_at, seq_tokens, seq_last_refill, tieredVars, poolVars, cacheVars, lockVars, routerVars, confidenceVars>>

\* The check that lets every caller take a token.
HasTokenAlways(current) == TRUE

\* *tokens >= 1.0
HasToken(current) == current >= TokenScale

\* Two tokens are deducted.
DeductedTwo(current) == current - 2 * TokenScale

\* *tokens -= 1.0
Deducted(current) == current - TokenScale

\* The bucket after one whole call of op made at the time now on a bucket
\* that holds current tokens and was last refilled at since: refill, then
\* check and deduct.
SeqCall(op, current, since, now) ==
    LET refilled == IF Elapsed(now, since) > 0
                    THEN Refilled(current, Elapsed(now, since))
                    ELSE current
    IN  IF op # "available_tokens" /\ HasToken(refilled)
        THEN Deducted(refilled)
        ELSE refilled

\* A guard of the tokens mutex that outlives the block it was taken in.
GuardKept(holder) == holder

\* The guard of the tokens mutex goes out of scope (lines 46-48, 64, 82): the
\* mutex is unlocked before the call returns or sleeps.
GuardDropped(holder) == "free"

\* With tokens locked: acquire and try_acquire deduct one token if there is
\* one (lines 44-47, 58-63); available_tokens reads the count (line 81).
\* The lock is released.  An acquire that found no token sleeps wait_time.
LimTake(t) ==
    /\ lim_pc[t] = "take"
    /\ tokens_lock' = GuardDropped(t)
    /\ IF lim_op[t] = "available_tokens"
       THEN /\ lim_ret' = [lim_ret EXCEPT ![t] = tokens]
            /\ lim_pc' = [lim_pc EXCEPT ![t] = "idle"]
            /\ UNCHANGED <<tokens, tokens_taken, lim_wake, lim_failed_at>>
       ELSE IF HasToken(tokens)
       THEN /\ tokens' = Deducted(tokens)
            /\ tokens_taken' = tokens_taken + 1
            /\ lim_ret' = [lim_ret EXCEPT ![t] =
                              IF lim_op[t] = "acquire" THEN "acquired" ELSE TRUE]
            /\ lim_pc' = [lim_pc EXCEPT ![t] = "idle"]
            /\ UNCHANGED <<lim_wake, lim_failed_at>>
       ELSE IF lim_op[t] = "try_acquire"
       THEN /\ lim_ret' = [lim_ret EXCEPT ![t] = FALSE]
            /\ lim_pc' = [lim_pc EXCEPT ![t] = "idle"]
            /\ UNCHANGED <<tokens, tokens_taken, lim_wake, lim_failed_at>>
       ELSE /\ lim_pc' = [lim_pc EXCEPT ![t] = "sleeping"]
            /\ lim_wake' = [lim_wake EXCEPT ![t] = clock + wait_time]
            /\ lim_failed_at' = [lim_failed_at EXCEPT ![t] = clock]
            /\ UNCHANGED <<tokens, tokens_taken, lim_ret>>
    /\ seq_tokens' = SeqCall(lim_op[t], seq_tokens, seq_last_refill, last_refill)
    /\ seq_last_refill' = last_refill
    /\ UNCHANGED <<last_refill, last_refill_lock, clock, lim_op, lim_now, lim_ops,
                   lim_seen, tieredVars, poolVars, cacheVars, lockVars, routerVars, confidenceVars>>

\* sleep(wait_time) is over: acquire loops (line 41).
LimWake(t) ==
    /\ lim_pc[t] = "sleeping"
    /\ clock >= lim_wake[t]
    /\ lim_pc' = [lim_pc EXCEPT ![t] = "refill_now"]
    /\ UNCHANGED <<tokens, last_refill, tokens_lock, last_refill_lock, clock,
                   lim_op, lim_now, lim_wake, lim_ret, lim_ops, tokens_taken,
                   lim_seen, lim_failed_at, seq_tokens, seq_last_refill,
                   tieredVars, poolVars, cacheVars, lockVars, routerVars, confidenceVars>>

\* The steps inside a call: everything but the call itself.
LimProgress(t) ==
    \/ LimNow(t)
    \/ LimLockLastRefill(t)
    \/ LimLockTokensInRefill(t)
    \/ LimRefillUpdate(t)
    \/ LimLockTokens(t)
    \/ LimTake(t)
    \/ LimWake(t)

\* The oldest time kept once the clock has reached MaxClock: a bucket last
\* refilled max_tokens ticks ago or earlier is full at its next refill.
TimeFloor == Min(0, MaxClock - max_tokens)

\* The time one tick earlier, as seen from the same clock reading.
Earlier(time, floor) == Max(time - 1, floor)

\* Time passes beyond MaxClock: the clock's origin moves on by one tick, so
\* every time kept is one tick earlier relative to it.  A caller that has read
\* the clock finishes its refill before the next tick.
TickOn ==
    /\ clock = MaxClock
    /\ \A t \in LimCallers :
          lim_pc[t] \notin {"refill_lock", "refill_lock_tokens", "refill_update"}
    /\ last_refill' = Earlier(last_refill, TimeFloor)
    /\ seq_last_refill' = Earlier(seq_last_refill, TimeFloor)
    /\ lim_now' = [t \in LimCallers |-> Earlier(lim_now[t], TimeFloor)]
    /\ lim_wake' = [t \in LimCallers |-> Earlier(lim_wake[t], 0)]
    /\ lim_failed_at' = [t \in LimCallers |-> Earlier(lim_failed_at[t],
                                                IF lim_failed_at[t] < 0 THEN -1 ELSE 0)]
    /\ UNCHANGED <<tokens, tokens_lock, last_refill_lock, clock, lim_pc, lim_op,
                   lim_ret, lim_ops, tokens_taken, lim_seen, seq_tokens,
                   tieredVars, poolVars, cacheVars, lockVars, routerVars, confidenceVars>>

LimStep(t) ==
    \/ \E op \in {"acquire", "try_acquire", "available_tokens"} : LimCall(t, op)
    \/ LimNow(t)
    \/ LimLockLastRefill(t)
    \/ LimLockTokensInRefill(t)
    \/ LimRefillUpdate(t)
    \/ LimLockTokens(t)
    \/ LimTake(t)
    \/ LimWake(t)

-----------------------------------------------------------------------------
(* SearchCache (src/src/optimization/zero_copy.rs) *)

\* The largest max_size of the model.
MaxCacheSize == 2
\* The largest ttl_seconds of the model.
MaxTtl == 1
\* SystemTime::now() runs from 0 to MaxUnixTime seconds.
MaxUnixTime == 2
\* The number of cache calls made.
MaxCacheOps == 4

\* The concurrent callers of the cache and the keys they use.
CacheCallers == {"u1", "u2"}
CacheKeys == {"key1", "key2", "key3"}

CachedSearchResult(title, url, snippet, content, timestamp) ==
    [title |-> title, url |-> url, snippet |-> snippet, content |-> content,
     timestamp |-> timestamp]

\* CachedSearchResult::from_search_result at the time now.
from_search_result(result, now) ==
    CachedSearchResult(result.title, result.url, result.snippet, result.content, now)

\* CachedSearchResult::to_search_result
to_search_result(cached) ==
    SearchResult(cached.title, cached.url, cached.snippet, cached.content)

\* Two short results: "a" at "u" with an empty snippet and no content, and
\* "b" at "v" with no snippet and the content "c".
R_cache_a == SearchResult(<<97>>, <<117>>, Some(<<>>), None)
R_cache_b == SearchResult(<<98>>, <<118>>, None, Some(<<99>>))

\* The result sets the callers cache.
CacheBatches == { <<>>, <<R_cache_a, R_cache_b>> }

\* A result set converted with from_search_result at the time now.
CachedBatch(batch, now) == [i \in 1..Len(batch) |-> from_search_result(batch[i], now)]

\* The archive of an Option<String>: a tag and the string.
ArchiveOption(o) == IF IsSome(o) THEN <<1, Unwrap(o)>> ELSE <<0, <<>>>>

\* An archived Option<String> read back as Some whatever its tag.
DeserializeOptionSome(tag, s) == Some(s)

\* An archived Option<String> read back.
DeserializeOption(tag, s) == IF tag = 1 THEN Some(s) ELSE None

\* The archive of one CachedSearchResult: its fields one after the other.
ArchiveResult(r) ==
    <<r.title, r.url>> \o ArchiveOption(r.snippet) \o ArchiveOption(r.content)
        \o <<r.timestamp>>

ArchivedWidth == Len(ArchiveResult(CachedSearchResult(<<>>, <<>>, None, None, 0)))

\* rkyv::to_bytes of a Vec<CachedSearchResult>: the length, then the elements.
to_bytes(results) ==
    <<Len(results)>> \o Flatten([i \in 1..Len(results) |-> ArchiveResult(results[i])])

\* The length of an archived Vec.
ArchivedLen(bytes) == bytes[1]

\* Field f of element i of an archived Vec.
ArchivedField(bytes, i, f) == bytes[1 + ArchivedWidth * (i - 1) + f]

\* archived.first().timestamp
FirstTimestamp(bytes) == ArchivedField(bytes, 1, ArchivedWidth)

\* rkyv::deserialize of an archived Vec<CachedSearchResult>.
deserialize(bytes) ==
    [i \in 1..ArchivedLen(bytes) |->
        CachedSearchResult(
            ArchivedField(bytes, i, 1),
            ArchivedField(bytes, i, 2),
            DeserializeOption(ArchivedField(bytes, i, 3), ArchivedField(bytes, i, 4)),
            DeserializeOption(ArchivedField(bytes, i, 5), ArchivedField(bytes, i, 6)),
            ArchivedField(bytes, i, 7))]

\* SearchCache::new(max_size, ttl_seconds), with the configuration's
\* max_size > 0 and ttl_seconds > 0.
InitCache ==
    /\ cache = << >>
    /\ max_size \in 1..MaxCacheSize
    /\ ttl_seconds \in 1..MaxTtl
    /\ unix_now = 0
    /\ cache_last = [caller |-> "none", op |-> "none", key |-> "none", ret |-> "none"]
    /\ cache_ops = 0
    /\ stored = << >>

\* cache.len()
CacheLen == Cardinality(DOMAIN cache)

\* One second passes.
CacheTick ==
    /\ unix_now < MaxUnixTime
    /\ unix_now' = unix_now + 1
    /\ UNCHANGED <<cache, max_size, ttl_seconds, cache_last, cache_ops, stored,
                   tieredVars, poolVars, limiterVars, lockVars, routerVars, confidenceVars>>

\* Caller c's call of op on key returns ret.
CacheReturn(c, op, key, ret) ==
    /\ cache_ops < MaxCacheOps
    /\ cache_ops' = cache_ops + 1
    /\ cache_last' = [caller |-> c, op |-> op, key |-> key, ret |-> ret]

\* The map with key bound to value.
Inserted(map, key, value) ==
    [k \in DOMAIN map \cup {key} |-> IF k = key THEN value ELSE map[k]]

\* The map without key.
Removed(map, key) == [k \in DOMAIN map \ {key} |-> map[k]]

\* A cache that evicts on every store.
AtCapacityAlways == TRUE

\* cache.len() >= self.max_size
AtCapacity == CacheLen >= max_size

\* The eviction that leaves a full cache as it is.
EvictNothing(map, victim) == map

\* cache.remove(&oldest_key)
Evict(map, victim) == Removed(map, victim)

\* store (lines 74-92): the results are serialized; then, with the write
\* lock, when the cache holds max_size entries or more, the first key of the
\* map's iteration order, which is any of its keys, is removed, and the new
\* entry is inserted.
store(c, key, results) ==
    /\ LET bytes == to_bytes(results)
           what == [at |-> unix_now, results |-> results]
       IN  IF AtCapacity /\ DOMAIN cache # {}
           THEN \E oldest_key \in DOMAIN cache :
                   /\ cache' = Inserted(Evict(cache, oldest_key), key, bytes)
                   /\ stored' = Inserted(Removed(stored, oldest_key), key, what)
           ELSE /\ cache' = Inserted(cache, key, bytes)
                /\ stored' = Inserted(stored, key, what)
    /\ CacheReturn(c, "store", key, "ok")
    /\ UNCHANGED <<max_size, ttl_seconds, unix_now, tieredVars, poolVars, limiterVars, lockVars, routerVars, confidenceVars>>

\* An entry expires as soon as its age reaches ttl_seconds.
ExpiredAtTtl(now, timestamp) == now - timestamp >= ttl_seconds

\* 2^64, the modulus of u64 arithmetic, stood for by the largest integer the
\* model's arithmetic holds: larger than every time and ttl_seconds of the
\* model, as 2^64 is larger than every time and TTL the program meets.
U64Modulus == 2147483647

\* The u64 subtraction now - timestamp overflows.
Overflows(now, timestamp) == timestamp > now

\* now - first.timestamp in a build without overflow checks: the difference
\* modulo 2^64.
WrappingSub(now, timestamp) ==
    IF Overflows(now, timestamp) THEN U64Modulus - (timestamp - now) ELSE now - timestamp

\* now - first.timestamp > self.ttl_seconds
Expired(now, timestamp) == WrappingSub(now, timestamp) > ttl_seconds

\* A get for which an entry with no first element is a miss.
GetResultEmptyMisses(map, key, now) ==
    IF key \notin DOMAIN map THEN None
    ELSE IF ArchivedLen(map[key]) = 0 \/ Expired(now, FirstTimestamp(map[key]))
    THEN None
    ELSE Some(deserialize(map[key]))

\* What get(key) returns at the time now when it does not panic (lines 98-118).
GetResult(map, key, now) ==
    IF key \notin DOMAIN map THEN None
    ELSE IF ArchivedLen(map[key]) > 0 /\ Expired(now, FirstTimestamp(map[key]))
    THEN None
    ELSE Some(deserialize(map[key]))

\* The panic "attempt to subtract with overflow" of a build with overflow
\* checks, as the outcome of a call.
Panic == <<"panic", "attempt to subtract with overflow">>

\* The outcomes of get(key) at the time now: with a first timestamp later than
\* now, line 111 panics in a build with overflow checks and wraps around in a
\* build without them.
GetOutcomes(map, key, now) ==
    IF /\ key \in DOMAIN map
       /\ ArchivedLen(map[key]) > 0
       /\ Overflows(now, FirstTimestamp(map[key]))
    THEN {Panic, GetResult(map, key, now)}
    ELSE {GetResult(map, key, now)}

\* A get that purges the entry it finds expired.
get_purging(c, key) ==
    /\ \E ret \in GetOutcomes(cache, key, unix_now) :
          /\ CacheReturn(c, "get", key, ret)
          /\ cache' = IF ret = None THEN Removed(cache, key) ELSE cache
          /\ stored' = IF ret = None THEN Removed(stored, key) ELSE stored
    /\ UNCHANGED <<max_size, ttl_seconds, unix_now,
                   tieredVars, poolVars, limiterVars, lockVars, routerVars, confidenceVars>>

\* get with the read lock (lines 95-119).  A panic leaves the lock unpoisoned
\* (it is a read lock) and the map as it is.
get(c, key) ==
    /\ \E ret \in GetOutcomes(cache, key, unix_now) : CacheReturn(c, "get", key, ret)
    /\ UNCHANGED <<cache, max_size, ttl_seconds, unix_now, stored,
                   tieredVars, poolVars, limiterVars, lockVars, routerVars, confidenceVars>>

\* contains (lines 122-124): self.get(key).is_some()
contains(c, key) ==
    /\ \E ret \in GetOutcomes(cache, key, unix_now) :
          CacheReturn(c, "contains", key, IF ret = Panic THEN Panic ELSE IsSome(ret))
    /\ UNCHANGED <<cache, max_size, ttl_seconds, unix_now, stored,
                   tieredVars, poolVars, limiterVars, lockVars, routerVars, confidenceVars>>

\* A remove that reports only the removal of an entry a get would return.
remove_unexpired(c, key) ==
    /\ cache' = Removed(cache, key)
    /\ stored' = Removed(stored, key)
    /\ CacheReturn(c, "remove", key, IsSome(GetResult(cache, key, unix_now)))
    /\ UNCHANGED <<max_size, ttl_seconds, unix_now,
                   tieredVars, poolVars, limiterVars, lockVars, routerVars, confidenceVars>>

\* remove with the write lock (lines 138-141).
remove(c, key) ==
    /\ cache' = Removed(cache, key)
    /\ stored' = Removed(stored, key)
    /\ CacheReturn(c, "remove", key, key \in DOMAIN cache)
    /\ UNCHANGED <<max_size, ttl_seconds, unix_now, tieredVars, poolVars, limiterVars, lockVars, routerVars, confidenceVars>>

\* clear with the write lock (lines 127-130).
clear(c) ==
    /\ cache' = << >>
    /\ stored' = << >>
    /\ CacheReturn(c, "clear", "none", "ok")
    /\ UNCHANGED <<max_size, ttl_seconds, unix_now, tieredVars, poolVars, limiterVars, lockVars, routerVars, confidenceVars>>

\* size with the read lock (lines 133-135).
size(c) ==
    /\ CacheReturn(c, "size", "none", CacheLen)
    /\ UNCHANGED <<cache, max_size, ttl_seconds, unix_now, stored,
                   tieredVars, poolVars, limiterVars, lockVars, routerVars, confidenceVars>>

\* cache.values().map(|v| v.len()).sum()
RECURSIVE TotalBytes(_)
TotalBytes(map) ==
    IF DOMAIN map = {} THEN 0
    ELSE LET k == CHOOSE x \in DOMAIN map : TRUE
         IN  Len(map[k]) + TotalBytes(Removed(map, k))

\* stats with the read lock (lines 144-154).
stats(c) ==
    /\ CacheReturn(c, "stats", "none",
                   [entries |-> CacheLen, total_bytes |-> TotalBytes(cache),
                    max_size |-> max_size, ttl_seconds |-> ttl_seconds])
    /\ UNCHANGED <<cache, max_size, ttl_seconds, unix_now, stored,
                   tieredVars, poolVars, limiterVars, lockVars, routerVars, confidenceVars>>

\* One call of a caller.  Every method holds the map's lock for all it does
\* with the map, so the calls of concurrent callers take effect one at a
\* time, in the order in which they get the lock.  What is stored is a result
\* set whose elements carry the timestamp the caller gave them: the time of a
\* conversion with from_search_result, or any other value of the public field.
CacheStep(c) ==
    \/ \E key \in CacheKeys, batch \in CacheBatches, made \in 0..MaxUnixTime :
          store(c, key, CachedBatch(batch, made))
    \/ \E key \in CacheKeys : get(c, key)
    \/ \E key \in CacheKeys : contains(c, key)
    \/ \E key \in CacheKeys : remove(c, key)
    \/ clear(c)
    \/ size(c)
    \/ stats(c)

-----------------------------------------------------------------------------
(* SearchCache, statement by statement under its RwLock
   (src/src/optimization/zero_copy.rs) *)

\* The number of cache calls the callers start in all.
MaxLockOps == 4

\* A lock that hands out the write guard while read guards are held.
WriteFreeAmongWriters == rw_writer = "none"

\* RwLock::write returns: no guard of either kind is held.
WriteFree == rw_writer = "none" /\ rw_readers = {}

\* RwLock::read returns: the write guard is not held.
ReadFree == rw_writer = "none"

\* SearchCache::new: nobody holds the lock.
InitLock ==
    /\ rw_writer = "none"
    /\ rw_readers = {}
    /\ rw_pc = [c \in CacheCallers |-> "idle"]
    /\ rw_call = [c \in CacheCallers |-> [key |-> "none", bytes |-> <<>>]]
    /\ rw_ret = [c \in CacheCallers |-> "none"]
    /\ rw_ops = 0

\* Caller c goes on to the statement at, with the lock as given.
RwGoto(c, at, writer, readers) ==
    /\ rw_pc' = [rw_pc EXCEPT ![c] = at]
    /\ rw_writer' = writer
    /\ rw_readers' = readers

\* Caller c starts a call on key with the value bytes.
RwCall(c, key, bytes) ==
    /\ rw_pc[c] = "idle"
    /\ rw_ops < MaxLockOps
    /\ rw_ops' = rw_ops + 1
    /\ rw_call' = [rw_call EXCEPT ![c] = [key |-> key, bytes |-> bytes]]

\* store, lines 76-80: the results are serialized, then self.cache.write()
\* returns the write guard.
StoreLock(c, key, results) ==
    /\ RwCall(c, key, to_bytes(results))
    /\ WriteFree
    /\ RwGoto(c, "store_check", c, rw_readers)
    /\ UNCHANGED <<rw_ret, cacheVars, tieredVars, poolVars, limiterVars, routerVars, confidenceVars>>

\* store, lines 83-88: the capacity check and the eviction.
StoreCheck(c) ==
    /\ rw_pc[c] = "store_check"
    /\ IF AtCapacity /\ DOMAIN cache # {}
       THEN \E oldest_key \in DOMAIN cache : cache' = Evict(cache, oldest_key)
       ELSE cache' = cache
    /\ RwGoto(c, "store_insert", rw_writer, rw_readers)
    /\ UNCHANGED <<rw_call, rw_ret, rw_ops, max_size, ttl_seconds, unix_now,
                   cache_last, cache_ops, stored, tieredVars, poolVars, limiterVars, routerVars, confidenceVars>>

\* store, lines 90-92: the insert; the write guard is dropped on return.
StoreInsert(c) ==
    /\ rw_pc[c] = "store_insert"
    /\ cache' = Inserted(cache, rw_call[c].key, rw_call[c].bytes)
    /\ rw_ret' = [rw_ret EXCEPT ![c] = "ok"]
    /\ RwGoto(c, "idle", "none", rw_readers)
    /\ UNCHANGED <<rw_call, rw_ops, max_size, ttl_seconds, unix_now,
                   cache_last, cache_ops, stored, tieredVars, poolVars, limiterVars, routerVars, confidenceVars>>

\* remove, line 139: self.cache.write().
RemoveLock(c, key) ==
    /\ RwCall(c, key, <<>>)
    /\ WriteFree
    /\ RwGoto(c, "remove", c, rw_readers)
    /\ UNCHANGED <<rw_ret, cacheVars, tieredVars, poolVars, limiterVars, routerVars, confidenceVars>>

\* remove, line 140: cache.remove(key).is_some(); the guard is dropped.
RemoveLocked(c) ==
    /\ rw_pc[c] = "remove"
    /\ cache' = Removed(cache, rw_call[c].key)
    /\ rw_ret' = [rw_ret EXCEPT ![c] = rw_call[c].key \in DOMAIN cache]
    /\ RwGoto(c, "idle", "none", rw_readers)
    /\ UNCHANGED <<rw_call, rw_ops, max_size, ttl_seconds, unix_now,
                   cache_last, cache_ops, stored, tieredVars, poolVars, limiterVars, routerVars, confidenceVars>>

\* clear, line 128: self.cache.write().
ClearLock(c) ==
    /\ RwCall(c, "none", <<>>)
    /\ WriteFree
    /\ RwGoto(c, "clear", c, rw_readers)
    /\ UNCHANGED <<rw_ret, cacheVars, tieredVars, poolVars, limiterVars, routerVars, confidenceVars>>

\* clear, line 129: cache.clear(); the guard is dropped.
ClearLocked(c) ==
    /\ rw_pc[c] = "clear"
    /\ cache' = << >>
    /\ rw_ret' = [rw_ret EXCEPT ![c] = "ok"]
    /\ RwGoto(c, "idle", "none", rw_readers)
    /\ UNCHANGED <<rw_call, rw_ops, max_size, ttl_seconds, unix_now,
                   cache_last, cache_ops, stored, tieredVars, poolVars, limiterVars, routerVars, confidenceVars>>

\* get (line 96), size (line 134) and stats (line 145): self.cache.read()
\* returns a read guard.
ReadLock(c, op, key) ==
    /\ RwCall(c, key, <<>>)
    /\ ReadFree
    /\ RwGoto(c, op, rw_writer, rw_readers \cup {c})
    /\ UNCHANGED <<rw_ret, cacheVars, tieredVars, poolVars, limiterVars, routerVars, confidenceVars>>

\* Caller c's read-only method returns ret and drops its read guard (a panic
\* drops it as well, and a read guard does not poison the lock).
ReadReturn(c, ret) ==
    /\ rw_ret' = [rw_ret EXCEPT ![c] = ret]
    /\ RwGoto(c, "idle", rw_writer, rw_readers \ {c})
    /\ UNCHANGED <<rw_call, rw_ops, cacheVars, tieredVars, poolVars, limiterVars, routerVars, confidenceVars>>

\* get, lines 98-118, with the read guard.
GetLocked(c) ==
    /\ rw_pc[c] = "get"
    /\ \E ret \in GetOutcomes(cache, rw_call[c].key, unix_now) : ReadReturn(c, ret)

\* size, line 134, with the read guard.
SizeLocked(c) ==
    /\ rw_pc[c] = "size"
    /\ ReadReturn(c, CacheLen)

\* stats, lines 146-153, with the read guard.
StatsLocked(c) ==
    /\ rw_pc[c] = "stats"
    /\ ReadReturn(c, [entries |-> CacheLen, total_bytes |-> TotalBytes(cache),
                      max_size |-> max_size, ttl_seconds |-> ttl_seconds])

\* One step of a caller of the cache's methods.
LockStep(c) ==
    \/ \E key \in CacheKeys, batch \in CacheBatches :
          StoreLock(c, key, CachedBatch(batch, unix_now))
    \/ StoreCheck(c)
    \/ StoreInsert(c)
    \/ \E key \in CacheKeys : RemoveLock(c, key)
    \/ RemoveLocked(c)
    \/ ClearLock(c)
    \/ ClearLocked(c)
    \/ \E key \in CacheKeys : ReadLock(c, "get", key)
    \/ ReadLock(c, "size", "none")
    \/ ReadLock(c, "stats", "none")
    \/ GetLocked(c)
    \/ SizeLocked(c)
    \/ StatsLocked(c)

-----------------------------------------------------------------------------
(* SemanticRouter (src/src/routing/semantic_router.rs) *)

\* RouterConfig::default: the complexity keywords.
\* U+5206 U+6790
K_fenxi == <<20998, 26512>>
\* U+6BD4 U+8F03
K_bijiao == <<27604, 36611>>
\* U+70BA U+4EC0 U+9EBC
K_weishenme == <<28858, 20160, 40636>>
\* U+5982 U+4F55
K_ruhe == <<22914, 20309>>
\* 'evaluate'
K_evaluate == <<101, 118, 97, 108, 117, 97, 116, 101>>
\* 'analyze'
K_analyze == <<97, 110, 97, 108, 121, 122, 101>>
\* 'compare'
K_compare == <<99, 111, 109, 112, 97, 114, 101>>

\* RouterConfig (enable_semantic_analysis is not read by classify).
RouterConfig(simple_max_length, complex_keywords) ==
    [simple_max_length |-> simple_max_length, complex_keywords |-> complex_keywords]

\* RouterConfig::default
RouterConfigDefault ==
    RouterConfig(50, <<K_fenxi, K_bijiao, K_weishenme, K_ruhe, K_evaluate,
                       K_analyze, K_compare>>)

\* query.matches([...]).count(): the number of characters of the query that
\* are in chars.
MatchCount(q, chars) == Cardinality({i \in 1..Len(q) : q[i] \in chars})

\* complex_keywords.iter().any(|kw| query_lower.contains(&kw.to_lowercase()))
has_complex_keyword(config, q) ==
    \E i \in 1..Len(config.complex_keywords) :
        Contains(ToLowercase(q), ToLowercase(config.complex_keywords[i]))

\* The clause count with the separators themselves counted.
clause_count_separators(q) == MatchCount(q, {44, 65292, 12289})

\* query.matches([',', U+FF0C, U+3001]).count() + 1
clause_count(q) == MatchCount(q, {44, 65292, 12289}) + 1

\* query.matches(['?', U+FF1F]).count()
question_count(q) == MatchCount(q, {63, 65311})

\* A router for which a keyword alone never makes a query Medium.
MediumByLengthOnly(config, q) == CharCount(q) > config.simple_max_length

\* has_complex_keyword || query_len > self.config.simple_max_length
MediumCondition(config, q) ==
    has_complex_keyword(config, q) \/ CharCount(q) > config.simple_max_length

\* SemanticRouter::classify (lines 65-89)
classify(config, q) ==
    IF \/ question_count(q) > 1
       \/ clause_count(q) > 2
       \/ has_complex_keyword(config, q) /\ CharCount(q) > 100
    THEN "Complex"
    ELSE IF MediumCondition(config, q) THEN "Medium"
    ELSE "Simple"

\* The configurations of the router: the default one, one with a length
\* limit above 100 and a keyword written with a capital ('Why'), and one with
\* the length limit 0.
RouterConfigs ==
    { RouterConfigDefault,
      RouterConfig(120, <<<<87, 104, 121>>>>),
      RouterConfig(0, <<K_bijiao>>) }

\* The longest run of filler characters in a query.
MaxPad == 94

\* The queries classify is called with: a word, filler, clause separators
\* and question marks, in lengths on both sides of 50 and of 100 characters.
RouterWords == { <<>>, K_analyze, <<65>> \o Tail(K_analyze), K_bijiao }
RouterSeparators == { <<>>, <<44>>, <<65292, 12289>>, <<44, 65292, 12289>> }
RouterQuestions == { <<>>, <<63>>, <<63, 65311>>, <<65311, 65311, 63>> }
RouterPads == {0, 43, 44, 50, 51, 93, MaxPad}
RouterQuery(word, pad, seps, marks) == word \o [i \in 1..pad |-> 120] \o seps \o marks

\* SemanticRouter::new(config)
InitRouter ==
    /\ router_config \in RouterConfigs
    /\ router_call = [query |-> <<>>, ret |-> "none"]

\* A call of classify.
ClassifyCall(q) ==
    /\ router_call' = [query |-> q, ret |-> classify(router_config, q)]
    /\ UNCHANGED <<router_config, confidenceVars, tieredVars, poolVars, limiterVars,
                   cacheVars, lockVars>>

-----------------------------------------------------------------------------
(* Calls of ConfidenceCalculator (src/src/routing/confidence.rs) *)

\* The largest count score_result_count is called with.
MaxCount == 12

\* The configurations of a calculator.  ConfidenceCalculator::new sets the
\* default one; the others are values of the fields of ConfidenceConfig that
\* do not add up to 1: all 0, all 1, all -1 and all 3.
ConfidenceConfigs ==
    { ConfidenceConfigDefault,
      ConfidenceConfig(0, 0, 0, 0, 0),
      ConfidenceConfig(One, One, One, One, One),
      ConfidenceConfig(0 - One, 0 - One, 0 - One, 0 - One, 0 - One),
      ConfidenceConfig(3 * One, 3 * One, 3 * One, 3 * One, 3 * One) }

\* The queries and result sets calculate is called with.
CalcQueries == Queries \cup {<<>>}
CalcLists == L1Lists \cup L2Lists \cup L3Lists

InitConfidence ==
    /\ calc_config \in ConfidenceConfigs
    /\ calc_call = [query |-> <<>>, results |-> <<>>, ret |-> -1]
    /\ count_call = [count |-> 0, ret |-> -1]

\* A call of calculate.
CalculateCall(q, results) ==
    /\ calc_call' = [query |-> q, results |-> results,
                     ret |-> calculate_with(calc_config, q, results)]
    /\ UNCHANGED <<calc_config, count_call, routerVars, tieredVars, poolVars,
                   limiterVars, cacheVars, lockVars>>

\* A call of score_result_count.
ScoreResultCountCall(count) ==
    /\ count_call' = [count |-> count, ret |-> score_result_count(count)]
    /\ UNCHANGED <<calc_config, calc_call, routerVars, tieredVars, poolVars,
                   limiterVars, cacheVars, lockVars>>

-----------------------------------------------------------------------------
(* The specifications *)

Init ==
    /\ InitTiered /\ InitPool /\ InitLimiter /\ InitCache /\ InitLock
    /\ InitRouter /\ InitConfidence

\* The default router and calculator, for the specifications that do not
\* exercise them.
DefaultRouter == router_config = RouterConfigDefault
DefaultCalculator == calc_config = ConfidenceConfigDefault

\* One engine and pool configuration, for the specifications that do not
\* exercise them.
DefaultThresholds == l1_threshold = DefaultL1Threshold /\ l2_threshold = DefaultL2Threshold

\* One cache configuration, for the specifications that do not exercise it.
OneCache == max_size = MaxCacheSize /\ ttl_seconds = MaxTtl

\* Concurrent search calls on one engine.
NextTiered ==
    \/ with_exa
    \/ with_tavily
    \/ \E s \in Searches : SearchStep(s)

InitTieredSearches ==
    /\ Init /\ DefaultThresholds /\ max_concurrent = 1 /\ OneCache
    /\ DefaultRouter /\ DefaultCalculator

SpecTiered ==
    /\ InitTieredSearches
    /\ [][NextTiered]_vars

\* One search call on its own, under every configuration.
NextSearch ==
    \/ with_exa
    \/ with_tavily
    \/ \E s \in {"s1"} : SearchStep(s)

InitSearch ==
    /\ Init /\ max_concurrent = MaxConcurrent /\ OneCache
    /\ DefaultRouter /\ DefaultCalculator

SpecSearch ==
    /\ InitSearch
    /\ [][NextSearch]_vars

\* Concurrent callers of one PooledClient.
NextPool == \E c \in PoolCallers : PoolStep(c)

InitPoolCallers ==
    /\ Init /\ DefaultThresholds /\ OneCache
    /\ DefaultRouter /\ DefaultCalculator

SpecPool ==
    /\ InitPoolCallers
    /\ [][NextPool]_vars

\* Concurrent callers of one RateLimiter, and time.
NextLimiter ==
    \/ Tick
    \/ \E t \in LimCallers : LimStep(t)

InitLimiterCallers ==
    /\ Init /\ DefaultThresholds /\ max_concurrent = MaxConcurrent /\ OneCache
    /\ DefaultRouter /\ DefaultCalculator

SpecLimiter ==
    /\ InitLimiterCallers
    /\ [][NextLimiter]_vars

\* Concurrent callers of one SearchCache, and time.
NextCache ==
    \/ CacheTick
    \/ \E c \in CacheCallers : CacheStep(c)

InitCacheCallers ==
    /\ Init /\ DefaultThresholds /\ max_concurrent = MaxConcurrent
    /\ DefaultRouter /\ DefaultCalculator

SpecCache ==
    /\ InitCacheCallers
    /\ [][NextCache]_vars

\* Concurrent callers of one SearchCache, statement by statement.
NextCacheLocks == \E c \in CacheCallers : LockStep(c)

InitCacheLocks ==
    /\ Init /\ DefaultThresholds /\ max_concurrent = MaxConcurrent
    /\ DefaultRouter /\ DefaultCalculator

SpecCacheLocks ==
    /\ InitCacheLocks
    /\ [][NextCacheLocks]_vars

\* Calls of classify on one router.
NextRouter ==
    \E word \in RouterWords, pad \in RouterPads, seps \in RouterSeparators,
       marks \in RouterQuestions :
        ClassifyCall(RouterQuery(word, pad, seps, marks))

InitRouterCalls ==
    /\ Init /\ DefaultThresholds /\ max_concurrent = MaxConcurrent /\ OneCache
    /\ DefaultCalculator

SpecRouter ==
    /\ InitRouterCalls
    /\ [][NextRouter]_vars

\* Calls of calculate and of score_result_count on one calculator.
NextConfidence ==
    \/ \E q \in CalcQueries, results \in CalcLists : CalculateCall(q, results)
    \/ \E count \in 0..MaxCount : ScoreResultCountCall(count)

InitConfidenceCalls ==
    /\ Init /\ DefaultThresholds /\ max_concurrent = MaxConcurrent /\ OneCache
    /\ DefaultRouter

SpecConfidence ==
    /\ InitConfidenceCalls
    /\ [][NextConfidence]_vars

\* Concurrent callers of one PooledClient whose requests all end and whose
\* tasks are polled again once they are woken.
SpecPoolLive ==
    /\ InitPoolCallers
    /\ [][NextPool]_vars
    /\ \A c \in PoolCallers :
          /\ WF_vars(PoolResume(c))
          /\ WF_vars(\E how \in {"ok", "err"} : PoolFinish(c, how))

\* Concurrent callers of acquire on one RateLimiter, with time that never
\* stops and threads that keep being scheduled.
NextLimiterLive ==
    \/ Tick
    \/ TickOn
    \/ \E t \in LimCallers : LimCall(t, "acquire")
    \/ \E t \in LimCallers : LimProgress(t)

SpecLimiterLive ==
    /\ InitLimiterCallers
    /\ [][NextLimiterLive]_vars
    /\ WF_vars(Tick \/ TickOn)
    /\ \A t \in LimCallers : WF_vars(LimProgress(t))

-----------------------------------------------------------------------------
(* What a search call did, read from its log *)

CallIdx(s, tier) ==
    {i \in 1..Len(log[s]) : log[s][i].ev = "call" /\ log[s][i].tier = tier}
OkIdx(s, tier) ==
    {i \in 1..Len(log[s]) : log[s][i].ev = "ok" /\ log[s][i].tier = tier}
ErrIdx(s) == {i \in 1..Len(log[s]) : log[s][i].ev = "err"}

Called(s, tier) == CallIdx(s, tier) # {}
Returned(s, tier) == OkIdx(s, tier) # {}
\* The results the tier's backend returned, and the confidence computed for them.
ResultsOf(s, tier) == log[s][CHOOSE i \in OkIdx(s, tier) : TRUE].results
ConfOf(s, tier) == calculate(query[s], ResultsOf(s, tier))
\* The argument of the call made to the tier's backend.
ArgOf(s, tier) == log[s][CHOOSE i \in CallIdx(s, tier) : TRUE].arg

InFlight(s) == pc[s] \in {"l1_call", "l2_call", "l3_call"}

-----------------------------------------------------------------------------
(* C1 *)

\* C1: the L2 backend is never called when the confidence computed for the
\* L1 results is >= l1_threshold, the L3 backend is never called when the
\* confidence computed for the L2 results is >= l2_threshold, and the backend
\* of a tier that is not configured is never called.
C1_NoNeedlessEscalation ==
    \A s \in Searches :
        /\ Called(s, "L2") =>
              /\ exa
              /\ Returned(s, "L1")
              /\ ~(ConfOf(s, "L1") >= l1_threshold)
        /\ Called(s, "L3") =>
              /\ tavily
              /\ Returned(s, "L2")
              /\ ~(ConfOf(s, "L2") >= l2_threshold)
        /\ (Returned(s, "L1") /\ ConfOf(s, "L1") >= l1_threshold) => ~Called(s, "L2")
        /\ (Returned(s, "L2") /\ ConfOf(s, "L2") >= l2_threshold) => ~Called(s, "L3")

\* Both backends are configured and a search stopped at L2 because the L2
\* confidence met its threshold: L2 was called, L3 was not.
C1_Witness ==
    /\ exa /\ tavily
    /\ \E s \in Searches :
          /\ pc[s] = "done" /\ Returned(s, "L2")
          /\ ResultsOf(s, "L1") # <<>>
          /\ ConfOf(s, "L2") >= l2_threshold /\ ~Called(s, "L3")

-----------------------------------------------------------------------------
(* C2 *)

CallTiers(s) ==
    LET calls == SelectSeq(log[s], LAMBDA e : e.ev = "call")
    IN  [i \in 1..Len(calls) |-> calls[i].tier]

\* C2: within one search call the backend calls happen in the order L1, L2,
\* L3, each at most once and never returning to an earlier tier; the L2 call
\* starts only after the L1 call has completed with a confidence strictly
\* below l1_threshold, and the L3 call only after the L2 call has completed
\* with a confidence strictly below l2_threshold.
C2_ForwardOnly ==
    \A s \in Searches :
        /\ Len(CallTiers(s)) <= 3
        /\ CallTiers(s) = SubSeq(<<"L1", "L2", "L3">>, 1, Len(CallTiers(s)))
        /\ \A i \in CallIdx(s, "L2") :
              /\ i > 1
              /\ log[s][i - 1].ev = "ok" /\ log[s][i - 1].tier = "L1"
              /\ calculate(query[s], log[s][i - 1].results) < l1_threshold
        /\ \A i \in CallIdx(s, "L3") :
              /\ i > 1
              /\ log[s][i - 1].ev = "ok" /\ log[s][i - 1].tier = "L2"
              /\ calculate(query[s], log[s][i - 1].results) < l2_threshold

\* A search has called all three tiers, each after a non-empty response of
\* the tier before it.
C2_Witness ==
    \E s \in Searches :
        /\ Called(s, "L3")
        /\ ResultsOf(s, "L1") # <<>> /\ ResultsOf(s, "L2") # <<>>
        /\ CallTiers(s) = <<"L1", "L2", "L3">>

-----------------------------------------------------------------------------
(* C3 *)

\* C3: if the backend call of any attempted tier fails with a Network, Api
\* or Parse error (a timeout included), search returns that error and no
\* TieredResult: no fallback to the results of an earlier tier, no success
\* with confidence 0.
C3_ErrorsPropagate ==
    \A s \in Searches :
        /\ \A i \in ErrIdx(s) :
              /\ i = Len(log[s])
              /\ pc[s] = "failed"
              /\ outcome[s] = [ok |-> FALSE, error |-> log[s][i].error]
        /\ (outcome[s] # None /\ outcome[s].ok) => ErrIdx(s) = {}

\* The L2 call timed out after L1 had returned results.
C3_Witness ==
    \E s \in Searches :
        /\ pc[s] = "failed"
        /\ Returned(s, "L1") /\ ResultsOf(s, "L1") # <<>>
        /\ Called(s, "L2")
        /\ outcome[s] = [ok |-> FALSE, error |-> E_timeout("api.exa.ai/search")]

-----------------------------------------------------------------------------
(* C4 *)

\* C4: every backend call made by search is made while holding a
\* ConnectionPool permit and after taking a token from a RateLimiter, so
\* across all concurrent searches the number of backend calls in flight never
\* exceeds max_concurrent.
C4_BackendCallsPooled ==
    LET inflight == Cardinality({s \in Searches : InFlight(s)})
        made == SumSeq([i \in 1..Len(SetToSeq(Searches)) |->
                           Len(CallTiers(SetToSeq(Searches)[i]))])
    IN  /\ inflight <= active_permits
        /\ made <= tokens_taken
        /\ inflight <= max_concurrent

-----------------------------------------------------------------------------
(* C5 *)

\* C5: a successful search returns tier_used = L1 with cost_estimate 0.0
\* exactly when the L1 confidence is >= l1_threshold or no L2 backend is
\* configured; it returns tier_used = L2 with cost_estimate 0.005 exactly when
\* L2 was called and its confidence is >= l2_threshold or no L3 backend is
\* configured; the returned results and confidence are those of the tier
\* named in tier_used.
C5_TierReported ==
    \A s \in Searches :
        pc[s] = "done" =>
            LET o == outcome[s]
            IN  /\ o.ok
                /\ (o.tier_used = "L1") <=> (ConfOf(s, "L1") >= l1_threshold \/ ~exa)
                /\ o.tier_used = "L1" =>
                      /\ o.cost_estimate = 0
                      /\ o.results = ResultsOf(s, "L1")
                      /\ o.confidence = ConfOf(s, "L1")
                /\ (o.tier_used = "L2") <=>
                      /\ Called(s, "L2")
                      /\ Returned(s, "L2")
                      /\ (ConfOf(s, "L2") >= l2_threshold \/ ~tavily)
                /\ o.tier_used = "L2" =>
                      /\ o.cost_estimate = 5
                      /\ o.results = ResultsOf(s, "L2")
                      /\ o.confidence = ConfOf(s, "L2")

\* A degraded success: L2 stayed below its threshold, no L3 is configured,
\* and the search returned the L2 results with the confidence they achieved.
C5_Witness ==
    \E s \in Searches :
        /\ pc[s] = "done" /\ ~tavily
        /\ outcome[s].tier_used = "L2"
        /\ outcome[s].confidence < l2_threshold
        /\ outcome[s].confidence > 0

-----------------------------------------------------------------------------
(* C6 *)

\* C6: once the L3 backend has returned successfully, search returns
\* tier_used = L3 with cost_estimate 0.015 and the L3 results whatever their
\* confidence, and no further backend call follows.
C6_L3IsFinal ==
    \A s \in Searches :
        \A i \in OkIdx(s, "L3") :
            /\ i = Len(log[s])
            /\ pc[s] = "done"
            /\ outcome[s] = [ok |-> TRUE, results |-> log[s][i].results,
                             tier_used |-> "L3",
                             confidence |-> calculate(query[s], log[s][i].results),
                             cost_estimate |-> 15]

\* L3 returned results scoring below both l2_threshold and what L2 achieved.
C6_Witness ==
    \E s \in Searches :
        /\ Returned(s, "L3")
        /\ ConfOf(s, "L3") < l2_threshold
        /\ ConfOf(s, "L3") < ConfOf(s, "L2")
        /\ ResultsOf(s, "L3") # <<>>

-----------------------------------------------------------------------------
(* C7 *)

\* The whitespace-separated words of the snippets of the results, in order.
RECURSIVE SnippetWords(_)
SnippetWords(results) ==
    IF results = <<>> THEN <<>>
    ELSE (IF IsSome(Head(results).snippet)
          THEN SplitWhitespace(Unwrap(Head(results).snippet))
          ELSE <<>>) \o SnippetWords(Tail(results))

\* The first occurrences of the elements of a sequence, in order.
RECURSIVE Distinct(_)
Distinct(seq) ==
    IF seq = <<>> THEN <<>>
    ELSE LET init == Distinct(SubSeq(seq, 1, Len(seq) - 1))
             last == seq[Len(seq)]
         IN  IF last \in Range(init) THEN init ELSE Append(init, last)

\* The query followed by a space and the keywords, single spaces between.
WithKeywords(original, keywords) ==
    IF keywords = <<>> THEN original
    ELSE original \o <<32>> \o Join(keywords, <<32>>)

\* C7 as stated: the query sent to L2 is the original query followed by a
\* space and up to 5 distinct words longer than 3 characters from the L1
\* snippets, in order of first appearance.
C7_DistinctWordsClaim ==
    \A s \in Searches :
        Called(s, "L2") =>
            ArgOf(s, "L2")[1] =
                WithKeywords(query[s],
                    Take(Distinct(SelectSeq(SnippetWords(ResultsOf(s, "L1")),
                                            LAMBDA w : CharCount(w) > 3)), 5))

\* C7, amended: the query sent to L2 is the original query followed, when
\* there is such a word, by a space and the first up to 5 words longer than 3
\* bytes of UTF-8 from the L1 snippets in order of appearance, a repeated
\* word once for each occurrence.
C7_FirstFiveWords ==
    \A s \in Searches :
        Called(s, "L2") =>
            ArgOf(s, "L2")[1] =
                WithKeywords(query[s],
                    Take(SelectSeq(SnippetWords(ResultsOf(s, "L1")),
                                   LAMBDA w : ByteLen(w) > 3), 5))

\* L2 was called after L1 returned snippets that repeat a word.
C7_Witness ==
    \E s \in Searches :
        /\ Called(s, "L2")
        /\ ResultsOf(s, "L1") = <<R_ddg_poor>>
        /\ ArgOf(s, "L2")[1] # query[s]

-----------------------------------------------------------------------------
(* C8 *)

\* C8: in every reachable state of a RateLimiter, after any interleaving of
\* acquire, try_acquire and available_tokens calls by concurrent callers and
\* any passage of time, 0 <= tokens <= max_tokens.
C8_TokensInRange == tokens >= 0 /\ tokens <= max_tokens

\* The bucket is full again after tokens were taken and time passed, while
\* another caller is inside a call.
C8_Witness ==
    /\ tokens = max_tokens
    /\ tokens_taken > 0
    /\ last_refill > 0
    /\ \E t \in LimCallers : lim_pc[t] # "idle"

-----------------------------------------------------------------------------
(* C9 *)

\* C9: under any number of concurrent get / post_json callers the number of
\* outstanding permits reported by active_permits() is between 0 and
\* max_concurrent, and it is 0 right after construction.
C9_PermitsBounded ==
    /\ active_permits >= 0
    /\ active_permits <= max_concurrent
    /\ (\A c \in PoolCallers : pool_calls[c] = 0) => active_permits = 0

\* Every permit is out and a further caller waits.
C9_Witness ==
    /\ max_concurrent > 1
    /\ active_permits = max_concurrent
    /\ waiters # <<>>

-----------------------------------------------------------------------------
(* C10 *)

\* C10: every permit acquired by get or post_json is released when that call
\* ends, whether the request succeeded, failed, or the caller was cancelled
\* while waiting for the permit or while the request was in flight: the
\* outstanding permits are those of the calls still in progress, and once all
\* calls have ended active_permits() is 0 again.
C10_PermitsReleased ==
    /\ active_permits =
          Cardinality({c \in PoolCallers : pool_pc[c] \in {"granted", "sending"}})
    /\ Range(waiters) = {c \in PoolCallers : pool_pc[c] = "waiting"}
    /\ (\A c \in PoolCallers : pool_pc[c] = "idle") =>
          active_permits = 0 /\ waiters = <<>>

\* All calls have ended: one with an error, one cancelled while it waited
\* for a permit and one cancelled while its request was in flight.
C10_Witness ==
    /\ \A c \in PoolCallers : pool_pc[c] = "idle"
    /\ {pool_end[c] : c \in PoolCallers} = {"err", "cancelled_waiting", "cancelled_sending"}
    /\ active_permits = 0


-----------------------------------------------------------------------------
(* What a step of the cache did *)

\* The step is a call of op.
CacheCalled(op) == cache_ops' = cache_ops + 1 /\ cache_last'.op = op

\* The step is a get(key) that directly follows a store of the same key.
GetAfterStore(key) ==
    /\ CacheCalled("get")
    /\ cache_last'.key = key
    /\ cache_last.op = "store"
    /\ cache_last.key = key
    /\ key \in DOMAIN stored
    /\ stored[key].at = unix_now

-----------------------------------------------------------------------------
(* C11 *)

\* C11: in every reachable state, under any interleaving of concurrent store,
\* get, remove and clear calls, a SearchCache built with max_size >= 1 holds
\* at most max_size entries.
C11_CacheBounded == max_size >= 1 => CacheLen <= max_size

\* The cache is full after a store that had to evict.
C11_Witness ==
    /\ max_size = MaxCacheSize
    /\ CacheLen = max_size
    /\ cache_ops > max_size
    /\ cache_last.op = "store"
    /\ \A k \in DOMAIN stored : stored[k].at = unix_now

-----------------------------------------------------------------------------
(* C18 *)

Fresh(results, now) ==
    \/ results = <<>>
    \/ results[1].timestamp <= now /\ now - results[1].timestamp <= ttl_seconds

-----------------------------------------------------------------------------
(* C19 *)

\* C19: get(key) returns the cached results only while now minus the time at
\* which store inserted the entry is at most ttl_seconds: a get exactly
\* ttl_seconds after the store still hits, and any later get is a miss.
C19_TtlFromStore ==
    [][\A key \in CacheKeys :
          (CacheCalled("get") /\ cache_last'.key = key) =>
             (IsSome(cache_last'.ret) <=>
                 (key \in DOMAIN stored /\ unix_now - stored[key].at <= ttl_seconds))]_vars

-----------------------------------------------------------------------------
(* C20 *)

-----------------------------------------------------------------------------
(* What a step of the rate limiter did *)

\* The step is t's check of the bucket in a call of op (lines 43-47, 57-63, 81).
LimTook(t, op) == lim_pc[t] = "take" /\ lim_pc'[t] # "take" /\ lim_op[t] = op

\* The step is the update of t's refill (lines 73-75).
LimRefilled(t) == lim_pc[t] = "refill_update" /\ lim_pc'[t] # "refill_update"

\* No caller but t has called the limiter.
LimAlone(t) == \A u \in LimCallers \ {t} : lim_ops[u] = 0

-----------------------------------------------------------------------------
(* C12 *)

\* C12: right after construction the available tokens equal burst_size, and
\* with no time elapsing exactly the first burst_size try_acquire calls
\* succeed and the next try_acquire fails.
C12_BurstThenFail ==
    /\ tokens = BurstSize * TokenScale
    /\ [][\A t \in LimCallers :
            /\ (LimTook(t, "available_tokens") /\ clock = 0 /\ tokens_taken = 0) =>
                  lim_ret'[t] = BurstSize * TokenScale
            /\ (LimTook(t, "try_acquire") /\ clock = 0) =>
                  lim_ret'[t] = (tokens_taken < BurstSize)]_vars

\* With no time elapsed, burst_size tokens were taken and a try_acquire
\* failed.
C12_Witness ==
    /\ clock = 0
    /\ tokens_taken = BurstSize
    /\ \E t \in LimCallers :
          lim_pc[t] = "idle" /\ lim_op[t] = "try_acquire" /\ lim_ret[t] = FALSE
    /\ \A t \in LimCallers : lim_op[t] \in {"try_acquire", "none"}

-----------------------------------------------------------------------------
(* C13 *)

\* C13: try_acquire never waits for a token: after refilling for the elapsed
\* time (capped at max_tokens) it returns true and deducts exactly one token
\* if at least 1 token is available, and otherwise returns false without
\* deducting anything, leaving the token count as the refill left it.
C13_TryAcquire ==
    [][\A t \in LimCallers :
          /\ LimRefilled(t) =>
                LET e == IF lim_now[t] > last_refill THEN lim_now[t] - last_refill ELSE 0
                IN  tokens' = IF tokens + e > BurstSize * TokenScale
                              THEN BurstSize * TokenScale
                              ELSE tokens + e
          /\ LimTook(t, "try_acquire") =>
                /\ lim_pc'[t] = "idle"
                /\ IF tokens >= TokenScale
                   THEN lim_ret'[t] = TRUE /\ tokens' = tokens - TokenScale
                   ELSE lim_ret'[t] = FALSE /\ tokens' = tokens
                /\ LimAlone(t) => tokens = lim_seen[t]]_vars

\* A try_acquire returned false on a bucket that a refill had left with half
\* a token, and a try_acquire returned true after a refill.
C13_Witness ==
    /\ \E t \in LimCallers :
          /\ lim_pc[t] = "idle" /\ lim_op[t] = "try_acquire" /\ lim_ret[t] = FALSE
          /\ tokens > 0
          /\ last_refill > 0
    /\ tokens_taken = BurstSize

-----------------------------------------------------------------------------
(* C14 *)

\* C14 as claimed: the refill and the check-and-deduct of one call form one
\* atomic step: what a call's check finds is what its own refill left, no
\* other caller's refill or deduction having taken effect in between.
C14_RefillAndDeductAtomic ==
    \A t \in LimCallers : lim_pc[t] = "take" => tokens = lim_seen[t]

\* C14: the refill and the check-and-deduct of one call are two critical
\* sections, and another caller's refill or deduction can take effect between
\* them; still every concurrent execution produces the same results and the
\* same token count as the calls made one after the other, in the order of
\* their checks, each at the time of the last refill before its check, which
\* is a time between the call's reading of the clock and its check.
C14_SequentialOrder ==
    /\ tokens = SeqCall("available_tokens", seq_tokens, seq_last_refill, last_refill)
    /\ \A t \in LimCallers :
          lim_pc[t] \in {"take_lock", "take"} =>
             lim_now[t] <= last_refill /\ last_refill <= clock

\* A caller is about to check a bucket from which another caller took a
\* token after the first one's refill.
C14_Witness ==
    \E t \in LimCallers :
        /\ lim_pc[t] = "take"
        /\ tokens < lim_seen[t]
        /\ last_refill > 0
        /\ seq_last_refill = last_refill

-----------------------------------------------------------------------------
(* C15 *)

\* C15: acquire returns only after it has deducted exactly one token; whenever
\* an attempt finds fewer than 1 token the caller sleeps 1/refill_rate seconds
\* before its next attempt, so two attempts of the same call are never closer
\* than that interval and an acquire on an empty bucket does not return before
\* a token has been refilled.
C15_AcquireWaits ==
    [][\A t \in LimCallers :
          /\ LimTook(t, "acquire") =>
                IF tokens >= TokenScale
                THEN /\ lim_ret'[t] = "acquired"
                     /\ lim_pc'[t] = "idle"
                     /\ tokens' = tokens - TokenScale
                ELSE /\ lim_ret'[t] = "none"
                     /\ lim_pc'[t] = "sleeping"
                     /\ tokens' = tokens
          /\ (lim_op[t] = "acquire" /\ lim_ret'[t] = "acquired" /\ lim_ret[t] # "acquired") =>
                LimTook(t, "acquire")
          /\ (lim_op[t] = "acquire" /\ lim_pc[t] = "refill_now" /\ lim_pc'[t] # "refill_now"
                /\ lim_failed_at[t] >= 0) =>
                lim_now'[t] >= lim_failed_at[t] + TokenScale]_vars

\* An acquire that found the bucket empty has slept and returned.
C15_Witness ==
    \E t \in LimCallers :
        /\ lim_op[t] = "acquire"
        /\ lim_pc[t] = "idle"
        /\ lim_ret[t] = "acquired"
        /\ lim_failed_at[t] >= 0


-----------------------------------------------------------------------------
(* C16 *)

-----------------------------------------------------------------------------
(* C17 *)

\* The step ends the call of a caller that held a permit.
PermitDropped ==
    \E h \in PoolCallers :
        pool_pc[h] \in {"granted", "sending"} /\ pool_pc'[h] = "idle"

\* C17: when max_concurrent permits are outstanding, a further caller does
\* not start its request until some permit is released, and it does start
\* once a holder releases: no waiter stays blocked forever when every holder
\* eventually releases.
C17_WaitersProceed ==
    /\ [][\A c \in PoolCallers :
            /\ (pool_pc[c] = "idle" /\ active_permits = max_concurrent) =>
                  pool_pc'[c] # "sending"
            /\ pool_pc[c] = "waiting" => pool_pc'[c] # "sending"
            /\ (pool_pc[c] = "waiting" /\ pool_pc'[c] = "granted") => PermitDropped
            /\ pool_pc'[c] = "sending" => active_permits' <= max_concurrent]_vars
    /\ \A c \in PoolCallers :
          pool_pc[c] = "waiting" ~> pool_pc[c] \in {"sending", "idle"}

\* A holder's request has ended and its permit was handed to the caller at
\* the head of the queue, every permit of the pool being out.
C17_Witness ==
    /\ max_concurrent = MaxConcurrent
    /\ active_permits = max_concurrent
    /\ \E c \in PoolCallers : pool_pc[c] = "granted"
    /\ \E h \in PoolCallers : pool_pc[h] = "idle" /\ pool_end[h] \in {"ok", "err"}


-----------------------------------------------------------------------------
(* C21 *)

\* C21: get never fails: for every stored entry and every clock value,
\* including an entry whose first timestamp is later than the current time,
\* it returns either the stored results or a miss.
C21_GetNeverFails ==
    cache_last.op = "get" =>
        \/ cache_last.ret = None
        \/ /\ cache_last.key \in DOMAIN stored
           /\ cache_last.ret = Some(stored[cache_last.key].results)


-----------------------------------------------------------------------------
(* C22 *)

\* Caller c is in a method that holds the write guard.
Writing(c) == rw_pc[c] \in {"store_check", "store_insert", "remove", "clear"}

\* Caller c is in a method that holds a read guard.
Reading(c) == rw_pc[c] \in {"get", "size", "stats"}

\* C22: cache operations exclude each other on the map as readers and
\* writers: while a caller is in store (between taking the lock and the
\* insert, the capacity check and the eviction included), in remove or in
\* clear, no other caller is inside any cache operation; the callers inside
\* get, size and stats hold read guards only, and the lock's state is exactly
\* the guards the callers inside the methods hold.
C22_ReadersWriters ==
    /\ \A c \in CacheCallers : \A d \in CacheCallers \ {c} :
          Writing(c) => rw_pc[d] = "idle"
    /\ \A c \in CacheCallers :
          /\ Writing(c) <=> rw_writer = c
          /\ Reading(c) <=> c \in rw_readers
    /\ rw_writer \in CacheCallers \cup {"none"}

\* Two callers are inside get and stats at the same time, on a cache into
\* which a store has inserted an entry.
C22_Witness ==
    /\ \E c \in CacheCallers : \E d \in CacheCallers \ {c} :
          rw_pc[c] = "get" /\ rw_pc[d] = "stats"
    /\ cache # << >>


-----------------------------------------------------------------------------
(* C23 *)

\* The tier whose backend call failed in search s.
FailedTier(s) == log[s][Len(log[s])].tier

\* The errors the backend of a tier can return.
ErrorsOfTier(tier) ==
    IF tier = "L1" THEN L1Errors ELSE IF tier = "L2" THEN L2Errors ELSE L3Errors

\* C23: when search fails, the error returned to the caller identifies which
\* tier (L1, L2 or L3) failed as well as the cause: it is an error of the
\* tier that failed and not one that the failure of another tier returns.
C23_ErrorNamesTier ==
    \A s \in Searches :
        pc[s] = "failed" =>
            /\ outcome[s] = Err(log[s][Len(log[s])].error)
            /\ outcome[s].error \in ErrorsOfTier(FailedTier(s))
            /\ \A tier \in {"L1", "L2", "L3"} \ {FailedTier(s)} :
                  outcome[s].error \notin ErrorsOfTier(tier)


-----------------------------------------------------------------------------
(* C24 *)

\* C24: search consults the cache for the query before calling any backend
\* and populates it with the results of a successful search: a search that
\* has called a backend was preceded by a cache call, and after a search has
\* succeeded the cache holds an entry.
C24_SearchUsesCache ==
    \A s \in Searches :
        /\ Called(s, "L1") => cache_ops > 0
        /\ (outcome[s] # None /\ outcome[s].ok) => DOMAIN cache # {}


-----------------------------------------------------------------------------
(* classify observed *)

\* The query of the last classify call.
LastQuery == router_call.query

\* A call of classify has returned.
Classified == router_call.ret # "none"

\* The number of question marks and of clause separators of a query.
QuestionMarks(q) == Cardinality({i \in 1..Len(q) : q[i] \in {63, 65311}})
ClauseSeparators(q) ==
    Cardinality({i \in 1..Len(q) : q[i] \in {44, 65292, 12289}})

\* A keyword of the configuration occurs in the query, whatever the case of
\* its letters.
KeywordPresent(q) ==
    \E i \in 1..Len(router_config.complex_keywords) :
        Contains(ToLowercase(q), ToLowercase(router_config.complex_keywords[i]))

-----------------------------------------------------------------------------
(* C25 *)

\* C25 as claimed: classify returns Complex exactly when the query contains
\* more than one question mark, or more than two clause separators, or a
\* complexity keyword together with a length above 100 characters.
C25_ComplexClaim ==
    Classified =>
        (router_call.ret = "Complex" <=>
            \/ QuestionMarks(LastQuery) > 1
            \/ ClauseSeparators(LastQuery) > 2
            \/ KeywordPresent(LastQuery) /\ Len(LastQuery) > 100)

\* C25: classify returns Complex exactly when the query contains more than
\* one question mark, or more than one clause separator (which split it into
\* more than two clauses), or a complexity keyword together with a length
\* above 100 characters.
C25_Complex ==
    Classified =>
        (router_call.ret = "Complex" <=>
            \/ QuestionMarks(LastQuery) > 1
            \/ ClauseSeparators(LastQuery) > 1
            \/ KeywordPresent(LastQuery) /\ Len(LastQuery) > 100)

\* A query with exactly two clause separators, one question mark and no
\* keyword, of at most 100 characters, was classified Complex.
C25_Witness ==
    /\ router_call.ret = "Complex"
    /\ ClauseSeparators(LastQuery) = 2
    /\ QuestionMarks(LastQuery) = 1
    /\ ~KeywordPresent(LastQuery)
    /\ Len(LastQuery) <= 100

-----------------------------------------------------------------------------
(* C26 *)

\* C26: for a query that is not classified Complex, classify returns Medium
\* exactly when a complexity keyword is present or the length in characters
\* exceeds simple_max_length, and Simple otherwise; the empty query is Simple.
C26_Medium ==
    (Classified /\ router_call.ret # "Complex") =>
        /\ router_call.ret = "Medium" <=>
              \/ KeywordPresent(LastQuery)
              \/ Len(LastQuery) > router_config.simple_max_length
        /\ router_call.ret \in {"Medium", "Simple"}
        /\ LastQuery = <<>> => router_call.ret = "Simple"

\* The empty query was classified Simple by the default router.
C26_Witness ==
    /\ Classified
    /\ LastQuery = <<>>
    /\ router_config = RouterConfigDefault
    /\ router_call.ret = "Simple"

-----------------------------------------------------------------------------
(* C27 *)

\* C27: for every query, every result set and any configured weights,
\* calculate returns a value in [0,1], and exactly 0.0 when the result set is
\* empty.
C27_ConfidenceInUnitInterval ==
    calc_call.ret # -1 =>
        /\ calc_call.ret \in 0..One
        /\ calc_call.results = <<>> => calc_call.ret = 0

\* calculate returned 1.0 for a result set whose weighted sum is above 1.0.
C27_Witness ==
    /\ calc_call.ret = One
    /\ calc_call.results # <<>>
    /\ calc_config.result_count_weight = 3 * One

-----------------------------------------------------------------------------
(* C28 *)

\* C28: score_result_count is monotonically non-decreasing and takes exactly
\* 0.0 for 0, 0.3 for 1-2, 0.6 for 3-5, 0.9 for 6-10, 1.0 above 10.
C28_ResultCountScore ==
    count_call.ret # -1 =>
        /\ count_call.ret =
              CASE count_call.count = 0 -> 0
                [] count_call.count \in 1..2 -> 3000
                [] count_call.count \in 3..5 -> 6000
                [] count_call.count \in 6..10 -> 9000
                [] OTHER -> One
        /\ \A less \in 0..count_call.count : score_result_count(less) <= count_call.ret

\* score_result_count returned 1.0 for more than 10 results.
C28_Witness == count_call.count > 10 /\ count_call.ret = One


-----------------------------------------------------------------------------
(* C29 *)

\* C29: the URL list passed to the L3 extract_content call is exactly the URLs
\* of the first min(3, n) of the n L2 results, in their original order (the
\* empty list when L2 returned no results).
C29_TopThreeUrls ==
    \A s \in Searches :
        Called(s, "L3") =>
            LET l2 == ResultsOf(s, "L2")
                n == Len(l2)
                urls == ArgOf(s, "L3")
            IN  /\ Returned(s, "L2")
                /\ Len(urls) = (IF n < 3 THEN n ELSE 3)
                /\ \A i \in 1..Len(urls) : urls[i] = l2[i].url

\* L3 was called with three URLs after L2 had returned four results.
C29_Witness ==
    \E s \in Searches :
        /\ Called(s, "L3")
        /\ Len(ResultsOf(s, "L2")) = 4
        /\ Len(ArgOf(s, "L3")) = 3


-----------------------------------------------------------------------------
(* C30 *)

\* The place of a tier in the escalation, and the threshold its confidence is
\* compared with (L3 has none).
TierRank(tier) == IF tier = "L1" THEN 1 ELSE IF tier = "L2" THEN 2 ELSE 3
TierThreshold(tier) == IF tier = "L1" THEN l1_threshold ELSE l2_threshold

\* C30 as claimed: the TieredResult returned by search is the best available
\* one: its confidence is greater than or equal to the confidence computed
\* for every tier that was attempted during that call.
C30_BestAvailable ==
    \A s \in Searches :
        pc[s] = "done" =>
            \A tier \in {"L1", "L2", "L3"} :
                Returned(s, tier) => outcome[s].confidence >= ConfOf(s, tier)

\* C30: the TieredResult returned by search is that of the last tier
\* attempted, with the confidence computed for that tier; every earlier tier
\* attempted scored below its threshold, and the returned confidence may be
\* lower than the confidence of an earlier tier.
C30_LastTierAttempted ==
    \A s \in Searches :
        pc[s] = "done" =>
            \A tier \in {"L1", "L2", "L3"} :
                Returned(s, tier) =>
                    IF tier = outcome[s].tier_used
                    THEN outcome[s].confidence = ConfOf(s, tier)
                    ELSE /\ TierRank(tier) < TierRank(outcome[s].tier_used)
                         /\ ConfOf(s, tier) < TierThreshold(tier)

\* A search returned the L2 results, no L3 being configured, with a
\* confidence below the one computed for L1.
C30_Witness ==
    \E s \in Searches :
        /\ pc[s] = "done"
        /\ outcome[s].tier_used = "L2"
        /\ outcome[s].results # <<>>
        /\ outcome[s].confidence < ConfOf(s, "L1")


-----------------------------------------------------------------------------
(* C31 *)

\* C31: with no acquisitions the available token count is non-decreasing over
\* time, grows by elapsed time x refill_rate, and stops at max_tokens: a step
\* that deducts nothing never lowers the count; a refill adds the tokens of
\* the time since last_refill, up to max_tokens; once that time covers what
\* the bucket lacks the count equals max_tokens, and it never exceeds it.
C31_IdleRefill ==
    [][/\ tokens_taken' = tokens_taken => tokens' >= tokens
       /\ tokens' <= BurstSize * TokenScale
       /\ \A t \in LimCallers :
             LimRefilled(t) =>
                LET idle == IF lim_now[t] > last_refill
                            THEN lim_now[t] - last_refill ELSE 0
                    lacks == BurstSize * TokenScale - tokens
                IN  /\ idle < lacks => tokens' = tokens + idle
                    /\ idle >= lacks => tokens' = BurstSize * TokenScale]_vars

\* available_tokens returned a full bucket after tokens had been taken, and
\* the caller's refill had found the bucket short of full.
C31_Witness ==
    \E t \in LimCallers :
        /\ lim_op[t] = "available_tokens"
        /\ lim_pc[t] = "idle"
        /\ lim_ret[t] = BurstSize * TokenScale
        /\ tokens_taken > 0


-----------------------------------------------------------------------------
(* C32 *)

\* The entry of key is expired: its first element is older than ttl_seconds.
ExpiredEntry(key) ==
    LET results == deserialize(cache[key])
    IN  /\ results # <<>>
        /\ results[1].timestamp <= unix_now
        /\ unix_now - results[1].timestamp > ttl_seconds

\* C32: a get on an expired entry returns a miss and leaves the map
\* unchanged: the entry still counts in size() and stats().entries, and
\* toward capacity, until it is overwritten, removed, evicted or cleared.
C32_ExpiredStays ==
    [][/\ \A key \in DOMAIN cache :
             /\ (CacheCalled("get") /\ cache_last'.key = key /\ ExpiredEntry(key)) =>
                   cache_last'.ret = None /\ cache' = cache
             /\ key \notin DOMAIN cache' => cache_last'.op \in {"store", "remove", "clear"}
       /\ CacheCalled("size") => cache_last'.ret = Cardinality(DOMAIN cache)
       /\ CacheCalled("stats") => cache_last'.ret.entries = Cardinality(DOMAIN cache)
       /\ (CacheCalled("store") /\ cache_last'.key \notin DOMAIN cache
              /\ Cardinality(DOMAIN cache) >= max_size) =>
             Cardinality(DOMAIN cache') = Cardinality(DOMAIN cache)]_vars

\* A get has missed on an expired entry, which is still in the full map.
C32_Witness ==
    /\ cache_last.op = "get"
    /\ cache_last.ret = None
    /\ cache_last.key \in DOMAIN cache
    /\ ExpiredEntry(cache_last.key)
    /\ CacheLen = max_size


-----------------------------------------------------------------------------
(* C33 *)

\* C33: remove(key) returns true exactly when key was in the map (expired or
\* not), deletes that key and no other, and afterwards contains(key) is false
\* until the next store of key; clear leaves the cache with size 0.
C33_RemoveAndClear ==
    [][/\ \A key \in CacheKeys :
             /\ (CacheCalled("remove") /\ cache_last'.key = key) =>
                   /\ cache_last'.ret = (key \in DOMAIN cache)
                   /\ DOMAIN cache' = DOMAIN cache \ {key}
                   /\ \A k \in DOMAIN cache' : cache'[k] = cache[k]
             /\ (CacheCalled("contains") /\ cache_last'.key = key
                    /\ key \notin DOMAIN cache) =>
                   cache_last'.ret = FALSE
             /\ (key \notin DOMAIN cache /\ key \in DOMAIN cache') =>
                   cache_last'.op = "store" /\ cache_last'.key = key
       /\ CacheCalled("clear") => cache' = << >>
       /\ (CacheCalled("size") /\ cache = << >>) => cache_last'.ret = 0]_vars

\* remove returned true for one of two keys, and the other key is still in
\* the map.
C33_Witness ==
    /\ cache_last.op = "remove"
    /\ cache_last.ret = TRUE
    /\ cache_last.key \notin DOMAIN cache
    /\ CacheLen = 1


-----------------------------------------------------------------------------
(* C34 *)

\* s starts with prefix.
StartsWith(s, prefix) ==
    Len(s) >= Len(prefix) /\ SubSeq(s, 1, Len(prefix)) = prefix

\* C34 as stated: refine_query returns the original query unchanged when the
\* L1 results contain no snippet word longer than 3 characters, and otherwise
\* a string that starts with the original query and is strictly longer.
C34_UnchangedWithoutLongWordClaim ==
    \A s \in Searches :
        Called(s, "L2") =>
            LET refined == ArgOf(s, "L2")[1]
                long == SelectSeq(SnippetWords(ResultsOf(s, "L1")),
                                  LAMBDA w : CharCount(w) > 3)
            IN  /\ long = <<>> => refined = query[s]
                /\ long # <<>> => /\ StartsWith(refined, query[s])
                                  /\ ByteLen(refined) > ByteLen(query[s])

\* C34, amended: refine_query returns the original query unchanged (no
\* trailing space) when the L1 results contain no snippet word longer than 3
\* bytes of UTF-8, in particular when L1 returned no results; otherwise it
\* returns a string that starts with the original query and is strictly
\* longer than it.
C34_UnchangedWithoutLongWord ==
    \A s \in Searches :
        Called(s, "L2") =>
            LET refined == ArgOf(s, "L2")[1]
                long == SelectSeq(SnippetWords(ResultsOf(s, "L1")),
                                  LAMBDA w : ByteLen(w) > 3)
            IN  /\ ResultsOf(s, "L1") = <<>> => refined = query[s]
                /\ long = <<>> => refined = query[s]
                /\ long # <<>> => /\ StartsWith(refined, query[s])
                                  /\ ByteLen(refined) > ByteLen(query[s])

\* L2 was called after L1 returned a snippet whose only word of more than 3
\* bytes has two characters, and the query sent is not the original one.
C34_Witness ==
    \E s \in Searches :
        /\ Called(s, "L2")
        /\ ResultsOf(s, "L1") = <<R_ddg_cjk_short>>
        /\ ArgOf(s, "L2")[1] = query[s] \o <<32, 23433, 20840>>


-----------------------------------------------------------------------------
(* C35 *)

\* C35: with an L3 (Tavily) backend configured but no L2 (Exa) backend,
\* search never calls the L3 backend: it returns the L1 results with
\* tier_used = L1 and cost_estimate 0.0 whatever the L1 confidence.
C35_TavilyAloneStaysAtL1 ==
    (tavily /\ ~exa) =>
        \A s \in Searches :
            /\ ~Called(s, "L3")
            /\ ~Called(s, "L2")
            /\ Returned(s, "L1") =>
                  /\ pc[s] = "done"
                  /\ outcome[s] = TieredResult(ResultsOf(s, "L1"), "L1",
                                               ConfOf(s, "L1"), 0)

\* With Tavily alone, a search returned L1 results whose confidence is below
\* the L1 threshold.
C35_Witness ==
    /\ tavily /\ ~exa
    /\ \E s \in Searches :
          /\ pc[s] = "done"
          /\ outcome[s].tier_used = "L1"
          /\ outcome[s].results # <<>>
          /\ outcome[s].confidence < l1_threshold


-----------------------------------------------------------------------------
(* C36 *)

\* C36: elapsed time is credited to the bucket at most once: last_refill
\* never moves backwards, a refill adds at most the tokens of the time
\* between last_refill and its own reading of the clock and then sets
\* last_refill to that reading, so the tokens handed out and the tokens in
\* the bucket together never exceed burst_size + refill_rate * elapsed time.
C36_TimeCreditedOnce ==
    /\ [](/\ last_refill <= clock
          /\ tokens_taken * TokenScale + tokens <= BurstSize * TokenScale + last_refill
          /\ tokens_taken * TokenScale <= BurstSize * TokenScale + clock)
    /\ [][/\ last_refill' >= last_refill
          /\ \A t \in LimCallers :
                LimRefilled(t) =>
                   /\ lim_now[t] > last_refill
                   /\ tokens' - tokens <= lim_now[t] - last_refill
                   /\ last_refill' = lim_now[t]
          /\ (\A t \in LimCallers : ~LimRefilled(t)) =>
                /\ tokens' <= tokens
                /\ last_refill' = last_refill]_vars

\* Two callers are inside refill with readings of the clock that both lie
\* after last_refill, one of them about to add its tokens, after the whole
\* burst was handed out.
C36_Witness ==
    /\ tokens_taken = BurstSize
    /\ tokens = 0
    /\ \E t \in LimCallers : \E u \in LimCallers \ {t} :
          /\ lim_pc[t] = "refill_update"
          /\ lim_pc[u] = "refill_lock"
          /\ lim_now[t] > last_refill
          /\ lim_now[u] > last_refill


-----------------------------------------------------------------------------
(* C37 *)

\* The caller is inside a call and not asleep.
LimInCall(t) == lim_pc[t] \notin {"idle", "sleeping"}

\* The caller can take its next step.
LimRuns(t) ==
    ENABLED (\/ LimNow(t)
             \/ LimLockLastRefill(t)
             \/ LimLockTokensInRefill(t)
             \/ LimRefillUpdate(t)
             \/ LimLockTokens(t)
             \/ LimTake(t))

\* C37: the RateLimiter cannot deadlock: the tokens mutex is taken inside the
\* last_refill mutex and never the other way round, a caller that sleeps or
\* has returned holds neither, and whenever a caller is inside a call it or
\* the holder of a mutex can take a step.
C37_NoDeadlock ==
    \A t \in LimCallers :
        /\ tokens_lock = t => lim_pc[t] \in {"refill_update", "take"}
        /\ last_refill_lock = t => lim_pc[t] \in {"refill_lock_tokens", "refill_update"}
        /\ lim_pc[t] = "refill_update" => tokens_lock = t /\ last_refill_lock = t
        /\ lim_pc[t] = "take" => tokens_lock = t
        /\ lim_pc[t] \in {"idle", "sleeping"} => tokens_lock # t /\ last_refill_lock # t
        /\ LimInCall(t) =>
              \/ LimRuns(t)
              \/ tokens_lock \in LimCallers /\ LimRuns(tokens_lock)
              \/ /\ last_refill_lock \in LimCallers
                 /\ lim_pc[t] = "refill_lock"
                 /\ \/ LimRuns(last_refill_lock)
                    \/ tokens_lock \in LimCallers /\ LimRuns(tokens_lock)

\* A caller inside refill holds last_refill and waits for tokens, which
\* another caller holds, while that caller is about to deduct a token.
C37_Witness ==
    \E t \in LimCallers : \E u \in LimCallers \ {t} :
        /\ lim_pc[u] = "refill_lock_tokens"
        /\ last_refill_lock = u
        /\ tokens_lock = t
        /\ lim_pc[t] = "take"
        /\ lim_op[t] = "acquire"


-----------------------------------------------------------------------------
(* C38 *)

\* C38: storing a key that is already cached replaces its value without
\* evicting any other key, even when the cache is full: every other entry
\* present before the store is still present after it.
C38_OverwriteKeepsOthers ==
    [][\A key \in CacheKeys :
          (CacheCalled("store") /\ cache_last'.key = key /\ key \in DOMAIN cache) =>
             /\ key \in DOMAIN cache'
             /\ \A k \in DOMAIN cache \ {key} :
                   k \in DOMAIN cache' /\ cache'[k] = cache[k]]_vars


-----------------------------------------------------------------------------
(* C39 *)

\* C39: an entry stored with an empty result sequence is never treated as
\* expired: at any time a get of its key returns the empty sequence as a hit,
\* and contains returns true.
C39_EmptyNeverExpires ==
    [][\A key \in DOMAIN cache :
          (cache_last'.key = key /\ deserialize(cache[key]) = << >>) =>
             /\ CacheCalled("get") => cache_last'.ret = Some(<< >>)
             /\ CacheCalled("contains") => cache_last'.ret = TRUE]_vars

\* A get returned the empty sequence later than ttl_seconds after the store
\* of the entry.
C39_Witness ==
    /\ cache_last.op = "get"
    /\ cache_last.ret = Some(<< >>)
    /\ cache_last.key \in DOMAIN stored
    /\ stored[cache_last.key].results = << >>
    /\ unix_now - stored[cache_last.key].at > ttl_seconds


-----------------------------------------------------------------------------
(* C40 *)

\* C40: the confidence that gates and is reported for L2 and L3 is computed
\* against the caller's original query, not against the refined query that
\* was sent to the L2 backend.
C40_ConfidenceOfOriginalQuery ==
    \A s \in Searches :
        /\ Returned(s, "L2") =>
              LET confidence == calculate(query[s], ResultsOf(s, "L2"))
              IN  /\ l2_confidence[s] = confidence
                  /\ (confidence >= l2_threshold \/ ~tavily) =>
                        /\ pc[s] = "done"
                        /\ outcome[s].tier_used = "L2"
                        /\ outcome[s].confidence = confidence
                  /\ (confidence < l2_threshold /\ tavily) => Called(s, "L3")
        /\ Returned(s, "L3") =>
              /\ outcome[s].tier_used = "L3"
              /\ outcome[s].confidence = calculate(query[s], ResultsOf(s, "L3"))

\* A search returned L2 results that reach the L2 threshold against the
\* original query and not against the refined query sent to L2.
C40_Witness ==
    \E s \in Searches :
        /\ Returned(s, "L2")
        /\ tavily
        /\ pc[s] = "done"
        /\ outcome[s].tier_used = "L2"
        /\ ArgOf(s, "L2")[1] # query[s]
        /\ calculate(query[s], ResultsOf(s, "L2")) >= l2_threshold
        /\ calculate(ArgOf(s, "L2")[1], ResultsOf(s, "L2")) < l2_threshold

=============================================================================
